---- MODULE Spec2Model ----
(***************************************************************************)
(* State-machine model of parts of TBTK:                                   *)
(*   - Solver::FLEX (src/Lib/src/Solver/FLEX.cpp): the self-consistency    *)
(*     loop run(), its stage tag, callback and convergence parameter;      *)
(*   - PropertyExtractorChebyshev (src/unnamed/part_000): the recursive    *)
(*     multi-index iterator calculate() as driven by calculateLDOS() and   *)
(*     calculateSP_LDOS(), the constructor and destructor, and             *)
(*     calculateGreensFunctions();                                         *)
(*   - StateTreeNode (src/unnamed/part_001): the constructors, add() and   *)
(*     getOverlappingStates(), and the two ModelFactory::createModel       *)
(*     overloads that take a StateSet;                                     *)
(*   - FLEX::convertSelfEnergyIndexStructure (FLEX.cpp:283-373);           *)
(*   - SusceptibilityCalculator (src/unnamed/part_004): the setters, the   *)
(*     result Index and the cache trees;                                   *)
(*   - Solver::Diagonalizer as its test (src/unnamed/part_003) drives it.  *)
(* Floating point values that the code divides are kept as exact           *)
(* quotients num/den (or their square root), so that 0/0 (NaN) and x/0     *)
(* (infinity) stay distinguishable from 0.                                 *)
(***************************************************************************)
EXTENDS Integers, Sequences, FiniteSets, TLC

VARIABLES
    \* ---- Solver::FLEX ----
    state,                  \* FLEX::state, the stage tag
    maxIterations,          \* FLEX::maxIterations
    callback,               \* TRUE iff FLEX::callback != nullptr
    norm,                   \* FLEX::norm
    tolerance,              \* FLEX::tolerance, a quotient [num, den]
    convergenceParameter,   \* FLEX::convergenceParameter, [num, den, root]
    greensFunction0,        \* data of FLEX::greensFunction0
    greensFunction,         \* data of FLEX::greensFunction
    oldGreensFunction,      \* data of FLEX::oldGreensFunction
    numMeshDimensions,      \* momentumSpaceContext.getNumMeshPoints().size()
    pc,                     \* position inside FLEX::run()
    iteration,              \* the local variable iteration of run()
    trace,                  \* what the current run() has done so far
    step,                   \* the stage run() is at: 0 bootstrap, 1..5 in the loop
    history,                \* per loop iteration of this run(): the Green's
                            \* functions before and after the recomputation
    runs,                   \* number of run() calls made
    \* ---- PropertyExtractorChebyshev ----
    energyResolution,       \* PropertyExtractorChebyshev::energyResolution
    pattern,                \* argument pattern of calculateLDOS
    ranges,                 \* argument ranges of calculateLDOS (by value)
    ldosArraySize,          \* local ldosArraySize of calculateLDOS
    ldos,                   \* the buffer new double[ldosArraySize]
    overflow,               \* element indices written past the buffer's end
    stack,                  \* activation records of calculate()
    calls,                  \* callback invocations made by calculate()
    depth,                  \* deepest nesting of calculate() so far
    ldPc,                   \* position inside calculateLDOS
    \* ---- PropertyExtractorChebyshev: lifetime, calculateGreensFunctions ----
    lifetime,               \* of the extractor: "constructing", "constructed",
                            \* "fatal" (exit(1)), "destroyed"
    numCoefficients,        \* PropertyExtractorChebyshev::numCoefficients
    useGPUToCalculateCoefficients,
    useGPUToGenerateGreensFunctions,
    useLookupTable,
    lookupTables,           \* number of cSolver->generateLookupTable calls
    gpuLog,                 \* the loadLookupTableGPU / destroyLookupTableGPU
                            \* calls made on cSolver, with the caller
    numTargets,             \* to.size() of the current calculateGreensFunctions
    greensFunctions,        \* the local buffer greensFunction of lines 59-88
    writers,                \* per element of that buffer: the loop iterations
                            \* (targets) that have written it
    progress,               \* per loop iteration: the elements written so far
    gfPc,                   \* position inside calculateGreensFunctions
    \* ---- PropertyExtractorChebyshev::calculateSP_LDOS ----
    hint,                   \* ((int*)hint)[0]
    sp_ldosArraySize,       \* local sp_ldosArraySize
    sp_ldos,                \* the buffer new complex<double>[4*sp_ldosArraySize]
    spReturn,               \* what calculateSP_LDOS returned
    errorReports,           \* error messages written to cout
    greensFunctionCalls,    \* calls of calculateGreensFunction made
    \* ---- StateTreeNode ----
    tree,                   \* the nodes of the tree, by their path from the root
    treePc,                 \* what the last call on the root did
    added,                  \* the states whose add() returned, in order
    addArgument,            \* the argument of the last add() call
    queryCoordinates,       \* arguments of the last getOverlappingStates()
    queryExtent,
    overlappingStates       \* the vector the last getOverlappingStates() returned

flexVars == <<state, maxIterations, callback, norm, tolerance,
              convergenceParameter, greensFunction0, greensFunction,
              oldGreensFunction, numMeshDimensions, pc, iteration, trace, step,
              history, runs>>

ldosVars == <<energyResolution, pattern, ranges, ldosArraySize, ldos,
              overflow, stack, calls, depth, ldPc>>

extractorVars == <<lifetime, numCoefficients, useGPUToCalculateCoefficients,
                   useGPUToGenerateGreensFunctions, useLookupTable, lookupTables,
                   gpuLog, numTargets, greensFunctions, writers, progress, gfPc>>

spVars == <<hint, sp_ldosArraySize, sp_ldos, spReturn, errorReports,
            greensFunctionCalls>>

treeVars == <<tree, treePc, added, addArgument, queryCoordinates, queryExtent,
              overlappingStates>>

VARIABLES
    \* ---- StateTreeNode(stateSet, maxDepth) and ModelFactory::createModel ----
    stateSet,               \* the states of the StateSet, in getStates() order
    model,                  \* hopping amplitudes of createModel(stateSet, o)
    treeModel,              \* hopping amplitudes of createModel(stateSet,
                            \* stateTreeNode, o)
    \* ---- SusceptibilityCalculator ----
    susceptibilityTree,     \* the four IndexedDataTrees, as functions from the
    rpaSusceptibilityTree,  \* result Index to the cached result
    rpaChargeSusceptibilityTree,
    rpaSpinSusceptibilityTree,
    susceptibilityMode,
    energyType,
    susceptibilityEnergies,
    interactionParameters,  \* the members U, Up, J, Jp
    interactionAmplitudesAreGenerated,
    interactionAmplitudesCharge,    \* the parameters the charge and spin
                            \* amplitudes were generated from
    kernelCalls,            \* calls of the Lindhard or Matsubara kernel made
    lastCall,               \* the last calculate...Susceptibility call and
                            \* what it returned
    \* ---- Diagonalizer with the self-consistency callback of its test ----
    selfConsistencyCounter, \* the global counter of the test
    solverMaxIterations,    \* Diagonalizer::maxIterations
    iterationCounter,       \* iterations of the running run()
    counterAtRun,           \* selfConsistencyCounter when run() was called
    solverRuns,             \* calls of run() made
    solverPc,
    \* ---- FLEX::convertSelfEnergyIndexStructure ----
    momentumSpaceContext,   \* numMeshPoints and numOrbitals
    selfEnergy,             \* the member selfEnergy
    convertPc

modelFactoryVars == <<stateSet, model, treeModel>>

susceptibilityVars == <<susceptibilityTree, rpaSusceptibilityTree,
                        rpaChargeSusceptibilityTree, rpaSpinSusceptibilityTree,
                        susceptibilityMode, energyType, susceptibilityEnergies,
                        interactionParameters, interactionAmplitudesAreGenerated,
                        interactionAmplitudesCharge, kernelCalls, lastCall>>

diagonalizerVars == <<selfConsistencyCounter, solverMaxIterations,
                      iterationCounter, counterAtRun, solverRuns, solverPc>>

selfEnergyVars == <<momentumSpaceContext, selfEnergy, convertPc>>

\* The variables of the StateSet, susceptibility, Diagonalizer and self-energy
\* parts, which the extractor, FLEX::run and the tree operations never touch.
restVars == <<modelFactoryVars, susceptibilityVars, diagonalizerVars,
              selfEnergyVars>>

vars == <<flexVars, ldosVars, extractorVars, spVars, treeVars, restVars>>

\* What the actions of one part of the program leave alone.
nonFlexVars == <<ldosVars, extractorVars, spVars, treeVars, restVars>>

nonLdosVars == <<flexVars, extractorVars, spVars, treeVars, restVars>>

(***************************************************************************)
(* Bounds of the model.                                                    *)
(***************************************************************************)
MaxIterationsBound == 2
MaxRuns == 2
MaxMeshDimensions == 3
MaxLen == 2
MaxRange == 2
MaxEnergyResolution == 2

(***************************************************************************)
(* Complex numbers with integer parts, and the quotients the code forms.   *)
(***************************************************************************)
Zero == <<0, 0>>
One == <<1, 0>>
ImagUnit == <<0, 1>>
Two == <<2, 0>>

ComplexSub(a, b) == <<a[1] - b[1], a[2] - b[2]>>

\* abs(z)^2
AbsSq(z) == z[1] * z[1] + z[2] * z[2]

\* A double that the code obtained as num/den (root = FALSE) or as
\* sqrt(num)/sqrt(den) (root = TRUE), with num, den >= 0.
Quotient(n, d, r) == [num |-> n, den |-> d, root |-> r]

IsNaN(v) == v.num = 0 /\ v.den = 0
IsInf(v) == v.num > 0 /\ v.den = 0
IsZero(v) == v.num = 0 /\ v.den > 0

\* v < t for a double v as above and a double t = t.num/t.den (t.den > 0, or
\* t.num = t.den = 0 for a NaN). Every comparison with NaN is false.
LessThan(v, t) ==
    /\ ~IsNaN(v)
    /\ ~IsInf(v)
    /\ t.num > 0
    /\ IF v.root
       THEN v.num * t.den * t.den < t.num * t.num * v.den
       ELSE v.num * t.den < t.num * v.den

\* Equality of two doubles obtained as above (NaN equals nothing).
SameValue(a, b) ==
    /\ ~IsNaN(a)
    /\ ~IsNaN(b)
    /\ IsInf(a) = IsInf(b)
    /\ \/ IsInf(a)
       \/ /\ a.den > 0
          /\ b.den > 0
          /\ CASE a.root = b.root -> a.num * b.den = b.num * a.den
               [] a.root /\ ~b.root ->
                    a.num * b.den * b.den = b.num * b.num * a.den
               [] OTHER ->
                    b.num * a.den * a.den = a.num * a.num * b.den

(***************************************************************************)
(* FLEX::calculateConvergenceParameter (FLEX.cpp:375-422).                 *)
(***************************************************************************)
Norms == {"Max", "L2"}

\* Lines 389-396: the running maxima of abs(oldData[n]) and of
\* abs(oldData[n] - newData[n]), kept as squares.
RECURSIVE MaxNormLoop(_, _, _, _, _)
MaxNormLoop(oldData, newData, n, oldMax, differenceMax) ==
    IF n > Len(oldData)
    THEN <<oldMax, differenceMax>>
    ELSE LET a == AbsSq(oldData[n])
             d == AbsSq(ComplexSub(oldData[n], newData[n]))
         IN  MaxNormLoop(oldData, newData, n + 1,
                         IF a > oldMax THEN a ELSE oldMax,
                         IF d > differenceMax THEN d ELSE differenceMax)

\* Lines 404-409: the sums of abs(oldData[n])^2 and abs(oldData[n] - newData[n])^2.
RECURSIVE L2NormLoop(_, _, _, _, _)
L2NormLoop(oldData, newData, n, oldL2, differenceL2) ==
    IF n > Len(oldData)
    THEN <<oldL2, differenceL2>>
    ELSE L2NormLoop(oldData, newData, n + 1,
                    oldL2 + AbsSq(oldData[n]),
                    differenceL2 + AbsSq(ComplexSub(oldData[n], newData[n])))

\* The value lines 386-414 assign to convergenceParameter, for a known norm
\* and data of equal size.
CalculateConvergenceParameter(nrm, oldData, newData) ==
    IF nrm = "Max"
    THEN LET m == MaxNormLoop(oldData, newData, 1, 0, 0)
         IN  Quotient(m[2], m[1], TRUE)
    ELSE LET m == L2NormLoop(oldData, newData, 1, 0, 0)
         IN  Quotient(m[2], m[1], FALSE)

(***************************************************************************)
(* Solver::FLEX: construction and run() (FLEX.cpp:41-108).                 *)
(***************************************************************************)
Stages == {"NotYetStarted", "GreensFunctionCalculated",
           "BareSusceptibilityCalculated", "RPASusceptibilitiesCalculated",
           "InteractionVertexCalculated", "SelfEnergyCalculated"}

\* Data a Green's function calculation may produce (never all zero).
GreensFunctionData == {<<One, Zero>>, <<One, ImagUnit>>, <<Two, ImagUnit>>}

\* The constructor does not assign FLEX::tolerance: its value is indeterminate
\* (negative, zero, positive, or with den = 0 a NaN).
Tolerances == {[num |-> -1, den |-> 1], [num |-> 0, den |-> 1],
               [num |-> 1, den |-> 2], [num |-> 2, den |-> 1],
               [num |-> 0, den |-> 0]}

Event(e, a) == [ev |-> e, arg |-> a]

\* The stage tag run() assigns at lines 67, 76, 82, 88, 94 and 101, with the
\* tags of the susceptibility stages exchanged.
StageAssigned_Swapped(s) ==
    CASE s = 0 -> "GreensFunctionCalculated"
      [] s = 1 -> "RPASusceptibilitiesCalculated"
      [] s = 2 -> "BareSusceptibilityCalculated"
      [] s = 3 -> "InteractionVertexCalculated"
      [] s = 4 -> "SelfEnergyCalculated"
      [] OTHER -> "GreensFunctionCalculated"

\* The stage tag run() assigns at lines 67, 76, 82, 88, 94 and 101.
StageAssigned(s) ==
    CASE s = 0 -> "GreensFunctionCalculated"
      [] s = 1 -> "BareSusceptibilityCalculated"
      [] s = 2 -> "RPASusceptibilitiesCalculated"
      [] s = 3 -> "InteractionVertexCalculated"
      [] s = 4 -> "SelfEnergyCalculated"
      [] OTHER -> "GreensFunctionCalculated"

\* FLEX::FLEX: the members the constructor assigns, for a context of any mesh
\* dimension; tolerance is left as it was.
InitFLEX ==
    /\ state = "NotYetStarted"
    /\ maxIterations = 1
    /\ callback = FALSE
    /\ norm = "Max"
    /\ tolerance \in Tolerances
    /\ convergenceParameter = Quotient(0, 1, FALSE)
    /\ greensFunction0 = <<>>
    /\ greensFunction = <<>>
    /\ oldGreensFunction = <<>>
    /\ numMeshDimensions \in 1..MaxMeshDimensions
    /\ pc = "idle"
    /\ iteration = 0
    /\ trace = <<>>
    /\ step = 0
    /\ history = <<>>
    /\ runs = 0

\* setMaxIterations, setCallback and setNorm of FLEX.h.
\* The caller of run() is in control: before the first run() or after one returned.
CallerInControl == pc \in {"idle", "returned"}

SetMaxIterations ==
    /\ CallerInControl
    /\ pc' = "idle"
    /\ \E n \in 0..MaxIterationsBound :
          /\ n # maxIterations
          /\ maxIterations' = n
    /\ UNCHANGED <<state, callback, norm, tolerance, convergenceParameter,
                   greensFunction0, greensFunction, oldGreensFunction,
                   numMeshDimensions, iteration, trace, step, history, runs>>
    /\ UNCHANGED nonFlexVars

SetCallback ==
    /\ CallerInControl
    /\ pc' = "idle"
    /\ callback' = ~callback
    /\ UNCHANGED <<state, maxIterations, norm, tolerance, convergenceParameter,
                   greensFunction0, greensFunction, oldGreensFunction,
                   numMeshDimensions, iteration, trace, step, history, runs>>
    /\ UNCHANGED nonFlexVars

SetNorm ==
    /\ CallerInControl
    /\ pc' = "idle"
    /\ \E n \in Norms :
          /\ n # norm
          /\ norm' = n
    /\ UNCHANGED <<state, maxIterations, callback, tolerance, convergenceParameter,
                   greensFunction0, greensFunction, oldGreensFunction,
                   numMeshDimensions, iteration, trace, step, history, runs>>
    /\ UNCHANGED nonFlexVars

\* A call of run(): control is at line 63.
Run ==
    /\ CallerInControl
    /\ runs < MaxRuns
    /\ runs' = runs + 1
    /\ pc' = "calc"
    /\ step' = 0
    /\ trace' = <<>>
    /\ history' = <<>>
    /\ UNCHANGED <<state, maxIterations, callback, norm, tolerance,
                   convergenceParameter, greensFunction0, greensFunction,
                   oldGreensFunction, numMeshDimensions, iteration>>
    /\ UNCHANGED nonFlexVars

\* calculateBareGreensFunction without the check of the mesh dimension.
CalculateBareGreensFunction_NoAssert ==
    /\ pc = "calc"
    /\ step = 0
    /\ \E g \in GreensFunctionData :
          /\ greensFunction0' = g
          /\ greensFunction' = g
    /\ trace' = Append(trace, Event("calc", "GreensFunction0"))
    /\ pc' = "state"
    /\ UNCHANGED <<state, maxIterations, callback, norm, tolerance,
                   convergenceParameter, oldGreensFunction, numMeshDimensions,
                   iteration, step, history, runs>>
    /\ UNCHANGED nonFlexVars

\* Lines 63-64: calculateBareGreensFunction (110-149), which ends the process
\* unless the mesh is two-dimensional, then greensFunction = greensFunction0.
CalculateBareGreensFunction ==
    /\ pc = "calc"
    /\ step = 0
    /\ IF numMeshDimensions # 2
       THEN /\ pc' = "fatal"
            /\ UNCHANGED <<greensFunction0, greensFunction, trace>>
       ELSE /\ \E g \in GreensFunctionData :
                  /\ greensFunction0' = g
                  /\ greensFunction' = g
            /\ trace' = Append(trace, Event("calc", "GreensFunction0"))
            /\ pc' = "state"
    /\ UNCHANGED <<state, maxIterations, callback, norm, tolerance,
                   convergenceParameter, oldGreensFunction, numMeshDimensions,
                   iteration, step, history, runs>>
    /\ UNCHANGED nonFlexVars

\* Lines 67, 76, 82, 88, 94, 101: state = State::... after the calculation.
SetState ==
    /\ pc = "state"
    /\ state' = StageAssigned(step)
    /\ trace' = Append(trace, Event("state", StageAssigned(step)))
    /\ pc' = "callback"
    /\ UNCHANGED <<maxIterations, callback, norm, tolerance, convergenceParameter,
                   greensFunction0, greensFunction, oldGreensFunction,
                   numMeshDimensions, iteration, step, history, runs>>
    /\ UNCHANGED nonFlexVars

\* Where control goes after the callback of stage s: the loop head after the
\* bootstrap (line 72 declares iteration = 0), the next calculation inside an
\* iteration, the test of line 105 after the last stage.
AfterCallback(s) ==
    CASE s = 0 -> /\ pc' = "loopTest"
                  /\ step' = step
                  /\ iteration' = 0
      [] s = 5 -> /\ pc' = "converge"
                  /\ step' = step
                  /\ iteration' = iteration
      [] OTHER -> /\ pc' = "calc"
                  /\ step' = s + 1
                  /\ iteration' = iteration

\* run() with the callback of the bootstrap stage left out.
InvokeCallback_NotAfterBootstrap ==
    /\ pc = "callback"
    /\ trace' = IF callback /\ step # 0
                THEN Append(trace, Event("callback", state))
                ELSE trace
    /\ AfterCallback(step)
    /\ UNCHANGED <<state, maxIterations, callback, norm, tolerance,
                   convergenceParameter, greensFunction0, greensFunction,
                   oldGreensFunction, numMeshDimensions, history, runs>>
    /\ UNCHANGED nonFlexVars

\* Lines 68-69, 77-78, 83-84, 89-90, 95-96, 102-103:
\* if(callback != nullptr) callback(*this); the callback sees the tag.
InvokeCallback ==
    /\ pc = "callback"
    /\ trace' = IF callback
                THEN Append(trace, Event("callback", state))
                ELSE trace
    /\ AfterCallback(step)
    /\ UNCHANGED <<state, maxIterations, callback, norm, tolerance,
                   convergenceParameter, greensFunction0, greensFunction,
                   oldGreensFunction, numMeshDimensions, history, runs>>
    /\ UNCHANGED nonFlexVars

\* The loop head with <= in place of <.
LoopTest_OffByOne ==
    /\ pc = "loopTest"
    /\ iteration' = iteration + 1
    /\ IF iteration <= maxIterations
       THEN pc' = "calc" /\ step' = 1
       ELSE pc' = "returned" /\ step' = step
    /\ UNCHANGED <<state, maxIterations, callback, norm, tolerance,
                   convergenceParameter, greensFunction0, greensFunction,
                   oldGreensFunction, numMeshDimensions, trace, history, runs>>
    /\ UNCHANGED nonFlexVars

\* Line 73: while(iteration++ < maxIterations); run() returns when it fails.
LoopTest ==
    /\ pc = "loopTest"
    /\ iteration' = iteration + 1
    /\ IF iteration < maxIterations
       THEN pc' = "calc" /\ step' = 1
       ELSE pc' = "returned" /\ step' = step
    /\ UNCHANGED <<state, maxIterations, callback, norm, tolerance,
                   convergenceParameter, greensFunction0, greensFunction,
                   oldGreensFunction, numMeshDimensions, trace, history, runs>>
    /\ UNCHANGED nonFlexVars

\* A stage calculation that leaves the Green's functions alone.
StageCalculation(s, name) ==
    /\ pc = "calc"
    /\ step = s
    /\ trace' = Append(trace, Event("calc", name))
    /\ pc' = "state"
    /\ UNCHANGED <<state, maxIterations, callback, norm, tolerance,
                   convergenceParameter, greensFunction0, greensFunction,
                   oldGreensFunction, numMeshDimensions, iteration, step,
                   history, runs>>
    /\ UNCHANGED nonFlexVars

\* Line 75.
CalculateBareSusceptibility == StageCalculation(1, "BareSusceptibility")

\* Line 81.
CalculateRPASusceptibilities == StageCalculation(2, "RPASusceptibilities")

\* Line 87.
CalculateInteractionVertex == StageCalculation(3, "InteractionVertex")

\* Line 93.
CalculateSelfEnergy == StageCalculation(4, "SelfEnergy")

\* Lines 99-100: oldGreensFunction = greensFunction; calculateGreensFunction().
\* run() does not call calculateConvergenceParameter(): convergenceParameter
\* keeps its value.
CalculateGreensFunction ==
    /\ pc = "calc"
    /\ step = 5
    /\ oldGreensFunction' = greensFunction
    /\ \E g \in GreensFunctionData : greensFunction' = g
    /\ history' = Append(history, [old |-> greensFunction, new |-> greensFunction'])
    /\ trace' = Append(trace, Event("calc", "GreensFunction"))
    /\ pc' = "state"
    /\ UNCHANGED <<state, maxIterations, callback, norm, tolerance,
                   convergenceParameter, greensFunction0, numMeshDimensions,
                   iteration, step, runs>>
    /\ UNCHANGED nonFlexVars

\* Lines 105-106: if(convergenceParameter < tolerance) break; run() returns
\* after the break.
ConvergenceTest ==
    /\ pc = "converge"
    /\ IF LessThan(convergenceParameter, tolerance)
       THEN pc' = "returned"
       ELSE pc' = "loopTest"
    /\ UNCHANGED <<state, maxIterations, callback, norm, tolerance,
                   convergenceParameter, greensFunction0, greensFunction,
                   oldGreensFunction, numMeshDimensions, iteration, trace, step,
                   history, runs>>
    /\ UNCHANGED nonFlexVars

(***************************************************************************)
(* PropertyExtractorChebyshev::calculateLDOS, calculateLDOSCallback and    *)
(* calculate (part_000:91-109, 149-156, 176-207).                          *)
(***************************************************************************)
\* The wildcard flags of Index.h: negative, with IDX_ALL below IDX_SUM_ALL.
IDX_SUM_ALL == -1
IDX_ALL == -2

\* Fixed coordinates a pattern may hold.
FixedCoordinates == {0, 1}

PatternEntries == {IDX_ALL, IDX_SUM_ALL} \cup FixedCoordinates

\* Stand-in for -imag(greensFunction[n])/M_PI of the Green's function that
\* calculateGreensFunction(index, index) returns: a contribution that depends
\* on the index and on the energy.
RECURSIVE IndexWeight(_, _)
IndexWeight(index, i) ==
    IF i > Len(index) THEN 0 ELSE i * index[i] + IndexWeight(index, i + 1)

LDOSContribution(index, n) == 1 + n + 2 * IndexWeight(index, 1)

\* Lines 92-95: the ranges entry of every fixed coordinate becomes 1.
NormalizedRanges(pat, rng) ==
    [n \in 1..Len(rng) |-> IF pat[n] >= 0 THEN 1 ELSE rng[n]]

\* Lines 97-101 with the test of line 99 taken as <= IDX_SUM_ALL, so that the
\* summed axes are counted too.
RECURSIVE ArraySize_SumCounted(_, _, _)
ArraySize_SumCounted(pat, rng, n) ==
    IF n > Len(rng)
    THEN 1
    ELSE (IF pat[n] <= IDX_SUM_ALL THEN rng[n] ELSE 1)
         * ArraySize_SumCounted(pat, rng, n + 1)

\* Lines 97-101: the product of the ranges of the entries below IDX_SUM_ALL.
RECURSIVE ArraySize(_, _, _)
ArraySize(pat, rng, n) ==
    IF n > Len(rng)
    THEN 1
    ELSE (IF pat[n] < IDX_SUM_ALL THEN rng[n] ELSE 1) * ArraySize(pat, rng, n + 1)

\* Lines 178-182: the last negative subindex, counted from 0; -1 if none.
RECURSIVE LastWildcard(_, _)
LastWildcard(pat, currentSubindex) ==
    IF currentSubindex < 0
    THEN -1
    ELSE IF pat[currentSubindex + 1] < 0
         THEN currentSubindex
         ELSE LastWildcard(pat, currentSubindex - 1)

\* An activation of calculate() that has not yet run.
Frame(pat, currentOffset, offsetMultiplier) ==
    [pattern |-> pat, currentOffset |-> currentOffset,
     offsetMultiplier |-> offsetMultiplier, currentSubindex |-> -1,
     nextOffsetMultiplier |-> offsetMultiplier, isSumIndex |-> FALSE,
     n |-> 0, at |-> "entry"]

Top == stack[Len(stack)]

SetTop(f) == [stack EXCEPT ![Len(stack)] = f]

\* Lines 152-153: the element indices the callback writes for an offset.
WrittenIndices(offset) ==
    {energyResolution * offset + n : n \in 0..(energyResolution - 1)}

\* Lines 152-153 on the elements that lie inside the buffer:
\* ldos[energyResolution*offset + n] -= imag(greensFunction[n])/M_PI.
LDOSCallback(buffer, index, offset) ==
    [k \in DOMAIN buffer |->
        IF k \in WrittenIndices(offset)
        THEN buffer[k] + LDOSContribution(index, k - energyResolution * offset)
        ELSE buffer[k]]

\* Lines 194, 203-204: back in the loop after the recursive call returned.
AfterCall(f) ==
    [f EXCEPT !.currentOffset = IF f.isSumIndex
                                THEN f.currentOffset
                                ELSE f.currentOffset + f.offsetMultiplier,
              !.n = f.n + 1,
              !.at = "loop"]

\* The stack after the top activation returned.
Returned(stk) ==
    IF Len(stk) = 1
    THEN <<>>
    ELSE [SubSeq(stk, 1, Len(stk) - 1) EXCEPT ![Len(stk) - 1] = AfterCall(stk[Len(stk) - 1])]

\* Line 108 once calculate() has returned to calculateLDOS.
PositionAfter(stk) == IF stk = <<>> THEN "done" ELSE "calculate"

\* No createModel call has returned; a Model is the sequence of the
\* HoppingAmplitudes added to it.
NoModel == [status |-> "none", amplitudes |-> <<>>]

\* No StateSet is handed to a StateTreeNode or to the ModelFactory.
IdleModelFactory ==
    /\ stateSet = <<>>
    /\ model = NoModel
    /\ treeModel = NoModel

\* No SusceptibilityCalculator takes part.
IdleSusceptibility ==
    /\ susceptibilityTree = <<>>
    /\ rpaSusceptibilityTree = <<>>
    /\ rpaChargeSusceptibilityTree = <<>>
    /\ rpaSpinSusceptibilityTree = <<>>
    /\ susceptibilityMode = "Lindhard"
    /\ energyType = "Complex"
    /\ susceptibilityEnergies = <<>>
    /\ interactionParameters = [U |-> 0, Up |-> 0, J |-> 0, Jp |-> 0]
    /\ interactionAmplitudesAreGenerated = FALSE
    /\ interactionAmplitudesCharge = [U |-> 0, Up |-> 0, J |-> 0, Jp |-> 0]
    /\ kernelCalls = 0
    /\ lastCall = [op |-> "none", serial |-> 0, k |-> <<>>, orbitalIndices |-> <<>>,
                   result |-> [kind |-> "none"]]

\* No Diagonalizer takes part.
IdleDiagonalizer ==
    /\ selfConsistencyCounter = 0
    /\ solverMaxIterations = 1
    /\ iterationCounter = 0
    /\ counterAtRun = 0
    /\ solverRuns = 0
    /\ solverPc = "absent"

\* convertSelfEnergyIndexStructure is not called.
IdleSelfEnergy ==
    /\ momentumSpaceContext = [numMeshPoints |-> <<>>, numOrbitals |-> 0]
    /\ selfEnergy = [indices |-> {}, lowerMatsubaraEnergyIndex |-> 0,
                     upperMatsubaraEnergyIndex |-> 0,
                     fundamentalMatsubaraEnergy |-> 0, data |-> <<>>]
    /\ convertPc = "idle"

IdleRest ==
    /\ IdleModelFactory
    /\ IdleSusceptibility
    /\ IdleDiagonalizer
    /\ IdleSelfEnergy

\* No extractor is constructed and calculateGreensFunctions is not called.
IdleExtractor ==
    /\ lifetime = "absent"
    /\ numCoefficients = 1
    /\ useGPUToCalculateCoefficients = FALSE
    /\ useGPUToGenerateGreensFunctions = FALSE
    /\ useLookupTable = FALSE
    /\ lookupTables = 0
    /\ gpuLog = <<>>
    /\ numTargets = 0
    /\ greensFunctions = <<>>
    /\ writers = <<>>
    /\ progress = <<>>
    /\ gfPc = "idle"

\* calculateSP_LDOS is not called.
IdleSP_LDOS ==
    /\ hint = -1
    /\ sp_ldosArraySize = 0
    /\ sp_ldos = <<>>
    /\ spReturn = "none"
    /\ errorReports = 0
    /\ greensFunctionCalls = 0

\* No StateTreeNode takes part.
IdleTree ==
    /\ tree = <<>>
    /\ treePc = "absent"
    /\ added = <<>>
    /\ addArgument = <<>>
    /\ queryCoordinates = <<>>
    /\ queryExtent = 0
    /\ overlappingStates = <<>>

\* No FLEX solver takes part.
IdleFLEX ==
    /\ state = "NotYetStarted"
    /\ maxIterations = 1
    /\ callback = FALSE
    /\ norm = "Max"
    /\ tolerance = [num |-> 0, den |-> 1]
    /\ convergenceParameter = Quotient(0, 1, FALSE)
    /\ greensFunction0 = <<>>
    /\ greensFunction = <<>>
    /\ oldGreensFunction = <<>>
    /\ numMeshDimensions = 2
    /\ pc = "idle"
    /\ iteration = 0
    /\ trace = <<>>
    /\ step = 0
    /\ history = <<>>
    /\ runs = 0

\* A call calculateLDOS(pattern, ranges) on an extractor of some energy resolution.
CallLDOS ==
    /\ energyResolution \in 1..MaxEnergyResolution
    /\ \E len \in 1..MaxLen :
          /\ pattern \in [1..len -> PatternEntries]
          /\ ranges \in [1..len -> 0..MaxRange]
    /\ ldosArraySize = 0
    /\ ldos = <<>>
    /\ overflow = {}
    /\ stack = <<>>
    /\ calls = <<>>
    /\ depth = 0
    /\ ldPc = "call"

\* Lines 92-106: the ranges of fixed coordinates forced to 1, the buffer
\* allocated and zeroed, calculate(callback, ldos, pattern, ranges, 0, 1) entered.
CalculateLDOS ==
    /\ ldPc = "call"
    /\ ranges' = NormalizedRanges(pattern, ranges)
    /\ ldosArraySize' = ArraySize(pattern, ranges', 1)
    /\ ldos' = [k \in 0..(ldosArraySize' - 1) |-> 0]
    /\ stack' = <<Frame(pattern, 0, 1)>>
    /\ depth' = 1
    /\ ldPc' = "calculate"
    /\ UNCHANGED <<energyResolution, pattern, overflow, calls>>
    /\ UNCHANGED nonLdosVars

\* Lines 184-186 and 149-156: no wildcard is left, the callback runs and
\* calculate() returns. A write past the end of the buffer is undefined
\* behaviour: it lands outside the buffer, or the process ends.
CalculateCallback ==
    /\ ldPc = "calculate"
    /\ Top.at = "entry"
    /\ LastWildcard(Top.pattern, Len(Top.pattern) - 1) = -1
    /\ calls' = Append(calls, [index |-> Top.pattern, offset |-> Top.currentOffset])
    /\ ldos' = LDOSCallback(ldos, Top.pattern, Top.currentOffset)
    /\ overflow' = overflow \cup (WrittenIndices(Top.currentOffset) \ DOMAIN ldos)
    /\ \/ /\ stack' = Returned(stack)
          /\ ldPc' = PositionAfter(stack')
       \/ /\ overflow' # {}
          /\ stack' = stack
          /\ ldPc' = "crashed"
    /\ UNCHANGED <<energyResolution, pattern, ranges, ldosArraySize, depth>>
    /\ UNCHANGED nonLdosVars

\* Lines 188-190 with the multiplication by the range left out.
NextOffsetMultiplier_NotScaled(f, currentSubindex) == f.offsetMultiplier

\* Lines 188-190.
NextOffsetMultiplier(f, currentSubindex) ==
    IF f.pattern[currentSubindex + 1] < IDX_SUM_ALL
    THEN f.offsetMultiplier * ranges[currentSubindex + 1]
    ELSE f.offsetMultiplier

\* Lines 187-193: a wildcard is found at currentSubindex; the loop over its
\* range is set up.
CalculateDescend ==
    /\ ldPc = "calculate"
    /\ Top.at = "entry"
    /\ LET currentSubindex == LastWildcard(Top.pattern, Len(Top.pattern) - 1)
       IN  /\ currentSubindex # -1
           /\ stack' = SetTop([Top EXCEPT
                  !.currentSubindex = currentSubindex,
                  !.nextOffsetMultiplier = NextOffsetMultiplier(Top, currentSubindex),
                  !.isSumIndex = (Top.pattern[currentSubindex + 1] = IDX_SUM_ALL),
                  !.n = 0,
                  !.at = "loop"])
    /\ UNCHANGED <<energyResolution, pattern, ranges, ldosArraySize, ldos,
                   overflow, calls, depth, ldPc>>
    /\ UNCHANGED nonLdosVars

\* The loop of line 194 with the bound tested by <=.
LoopContinues_OffByOne(f) == f.n <= ranges[f.currentSubindex + 1]

\* Line 194: n < ranges.indices.at(currentSubindex).
LoopContinues(f) == f.n < ranges[f.currentSubindex + 1]

\* Lines 194-202: the next value of the wildcard is written into the pattern
\* and calculate() is called with it, or the loop ends and calculate() returns.
CalculateLoop ==
    /\ ldPc = "calculate"
    /\ Top.at = "loop"
    /\ IF LoopContinues(Top)
       THEN LET resolved == [Top.pattern EXCEPT ![Top.currentSubindex + 1] = Top.n]
            IN  /\ stack' = Append(SetTop([Top EXCEPT !.pattern = resolved,
                                                      !.at = "called"]),
                                   Frame(resolved, Top.currentOffset,
                                         Top.nextOffsetMultiplier))
                /\ depth' = IF Len(stack') > depth THEN Len(stack') ELSE depth
                /\ ldPc' = ldPc
       ELSE /\ stack' = Returned(stack)
            /\ depth' = depth
            /\ ldPc' = PositionAfter(stack')
    /\ UNCHANGED <<energyResolution, pattern, ranges, ldosArraySize, ldos,
                   overflow, calls>>
    /\ UNCHANGED nonLdosVars

NextLDOS ==
    \/ CalculateLDOS
    \/ CalculateCallback
    \/ CalculateDescend
    \/ CalculateLoop

InitLDOS ==
    /\ IdleFLEX
    /\ CallLDOS
    /\ IdleExtractor
    /\ IdleSP_LDOS
    /\ IdleTree
    /\ IdleRest

\* calculateLDOS runs on one thread that is never suspended for good.
SpecLDOS == InitLDOS /\ [][NextLDOS]_vars /\ WF_vars(NextLDOS)

\* The extractor before any call of calculateLDOS.
IdleLDOS ==
    /\ energyResolution = 1
    /\ pattern = <<>>
    /\ ranges = <<>>
    /\ ldosArraySize = 0
    /\ ldos = <<>>
    /\ overflow = {}
    /\ stack = <<>>
    /\ calls = <<>>
    /\ depth = 0
    /\ ldPc = "idle"

Init ==
    /\ InitFLEX
    /\ IdleLDOS
    /\ IdleExtractor
    /\ IdleSP_LDOS
    /\ IdleTree
    /\ IdleRest

Next ==
    \/ SetMaxIterations
    \/ SetCallback
    \/ SetNorm
    \/ Run
    \/ CalculateBareGreensFunction
    \/ SetState
    \/ InvokeCallback
    \/ LoopTest
    \/ CalculateBareSusceptibility
    \/ CalculateRPASusceptibilities
    \/ CalculateInteractionVertex
    \/ CalculateSelfEnergy
    \/ CalculateGreensFunction
    \/ ConvergenceTest

Spec == Init /\ [][Next]_vars

(***************************************************************************)
(* Properties of calculate() and calculateLDOS.                            *)
(***************************************************************************)
Axes == 1..Len(pattern)

SummedAxes == {i \in Axes : pattern[i] = IDX_SUM_ALL}

\* The wildcard axes that are not summed.
IteratedAxes == {i \in Axes : pattern[i] < 0 /\ pattern[i] # IDX_SUM_ALL}

RECURSIVE RangeProduct(_)
RangeProduct(axes) ==
    IF axes = {}
    THEN 1
    ELSE LET i == CHOOSE a \in axes : TRUE
         IN  ranges[i] * RangeProduct(axes \ {i})

\* The concrete indices the pattern stands for.
ConcreteIndices ==
    {idx \in [Axes -> (0..MaxRange) \cup FixedCoordinates] :
        \A i \in Axes : IF pattern[i] >= 0
                        THEN idx[i] = pattern[i]
                        ELSE idx[i] < ranges[i]}

\* The stride of an iterated axis: the product of the ranges of the later
\* iterated axes.
Stride(i) == RangeProduct({j \in IteratedAxes : j > i})

RECURSIVE MixedRadix(_, _)
MixedRadix(idx, axes) ==
    IF axes = {}
    THEN 0
    ELSE LET i == CHOOSE a \in axes : TRUE
         IN  idx[i] * Stride(i) + MixedRadix(idx, axes \ {i})

\* The mixed-radix value of the iterated coordinates of a concrete index.
SlotOf(idx) == MixedRadix(idx, IteratedAxes)

RECURSIVE SumOfContributions(_, _)
SumOfContributions(indices, n) ==
    IF indices = {}
    THEN 0
    ELSE LET idx == CHOOSE a \in indices : TRUE
         IN  LDOSContribution(idx, n) + SumOfContributions(indices \ {idx}, n)

CallOffsets == {calls[k].offset : k \in 1..Len(calls)}

\* C8: for a pattern without IDX_SUM_ALL axes, once calculate() has returned
\* the callback has received every offset in 0..P-1 exactly once, P the
\* product of the ranges of the wildcard axes; the offset of a concrete index
\* is the mixed-radix value of its wildcard coordinates (last wildcard axis
\* stride 1), and different concrete indices have different offsets.
C8_OffsetsEnumerated ==
    (ldPc = "done" /\ SummedAxes = {}) =>
        /\ Len(calls) = RangeProduct(IteratedAxes)
        /\ CallOffsets = 0..(RangeProduct(IteratedAxes) - 1)
        /\ \A k \in 1..Len(calls) : calls[k].offset = SlotOf(calls[k].index)
        /\ \A k, l \in 1..Len(calls) :
              calls[k].index # calls[l].index => calls[k].offset # calls[l].offset
        /\ \A k, l \in 1..Len(calls) :
              k # l => calls[k].index # calls[l].index

\* C8 witness: calculate() has returned for a pattern of two IDX_ALL axes of
\* range 2, having handed out four offsets.
C8_Witness ==
    /\ ldPc = "done"
    /\ SummedAxes = {}
    /\ Cardinality(IteratedAxes) = 2
    /\ \A i \in IteratedAxes : ranges[i] = 2
    /\ Len(calls) = 4

\* C9: for a pattern with an IDX_SUM_ALL axis, the offset handed to the
\* callback does not depend on the coordinate of that axis (it is the
\* mixed-radix value of the other wildcard coordinates, the summed axis
\* adding no factor to any stride), and once calculateLDOS is done the output
\* slot of every offset and energy is an element of the buffer that holds the
\* sum of the contributions of all concrete indices with that offset.
C9_SummedAxisAccumulates ==
    (ldPc = "done" /\ SummedAxes # {}) =>
        /\ \A k \in 1..Len(calls) : calls[k].offset = SlotOf(calls[k].index)
        /\ \A idx \in ConcreteIndices : \A n \in 0..(energyResolution - 1) :
              LET slot == energyResolution * SlotOf(idx) + n
              IN  /\ slot \in DOMAIN ldos
                  /\ ldos[slot] =
                        SumOfContributions(
                            {j \in ConcreteIndices : SlotOf(j) = SlotOf(idx)}, n)

\* C11: once calculateLDOS has prepared its call of calculate(), the ranges
\* entry of every fixed (non-negative) pattern coordinate is 1, the buffer has
\* as many elements as the product of the ranges entries of all axes that are
\* not IDX_SUM_ALL (which is the product over the IDX_ALL axes, as fixed axes
\* count 1), and as long as no callback has run every element is zero.
C11_BufferSizedAndZeroed ==
    (ldPc \in {"calculate", "done", "crashed"}) =>
        /\ \A i \in Axes : pattern[i] >= 0 => ranges[i] = 1
        /\ ldosArraySize = RangeProduct(Axes \ SummedAxes)
        /\ ldosArraySize = RangeProduct({i \in Axes : pattern[i] = IDX_ALL})
        /\ DOMAIN ldos = 0..(ldosArraySize - 1)
        /\ (calls = <<>> => \A k \in DOMAIN ldos : ldos[k] = 0)

\* A buffer of two elements stands zeroed while calculate() is already nested
\* but no callback has run yet; one axis is iterated over a range of two, the
\* other summed over a range of two.
C11_Witness ==
    /\ ldPc = "calculate"
    /\ calls = <<>>
    /\ Len(pattern) = 2
    /\ pattern[1] = IDX_ALL
    /\ pattern[2] = IDX_SUM_ALL
    /\ ranges = <<2, 2>>
    /\ ldosArraySize = 2
    /\ Len(stack) = 2

\* C27: every element index the LDOS callback has written,
\* energyResolution*offset + n for the offsets calculate() produced and
\* n < energyResolution, lies inside the buffer calculateLDOS allocated.
C27_WritesInsideBuffer ==
    /\ overflow = {}
    /\ \A k \in 1..Len(calls) : WrittenIndices(calls[k].offset) \subseteq DOMAIN ldos

\* C10: calculate() terminates; its nesting never exceeds the pattern length
\* plus one; once it has returned the callback has been invoked as often as
\* the product of the ranges of all wildcard axes, each time with a concrete
\* index without negative entry that keeps the fixed coordinates; for a
\* pattern without wildcards that is one invocation, at offset 0.
C10_TerminatesAndEnumerates ==
    /\ [](depth <= Len(pattern) + 1 /\ Len(stack) <= depth)
    /\ [](Len(calls) <= RangeProduct(IteratedAxes \cup SummedAxes))
    /\ [](ldPc = "done" =>
            /\ Len(calls) = RangeProduct(IteratedAxes \cup SummedAxes)
            /\ \A k \in 1..Len(calls) : calls[k].index \in ConcreteIndices
            /\ (IteratedAxes \cup SummedAxes = {}) =>
                   calls = <<[index |-> pattern, offset |-> 0]>>)
    /\ <>(ldPc \in {"done", "crashed"})

\* C10 witness: calculate() has returned after nesting to the pattern length
\* plus one and four callback invocations.
C10_Witness ==
    /\ ldPc = "done"
    /\ depth = Len(pattern) + 1
    /\ Len(calls) = 4

(***************************************************************************)
(* Properties of FLEX::run().                                              *)
(***************************************************************************)
EventsOf(kind) == SelectSeq(trace, LAMBDA e : e.ev = kind)

\* run() has returned normally.
RunReturned == pc = "returned"

\* The i-th tag of a run, as the stage list of the specification orders them.
ExpectedStage(i) ==
    IF i = 1
    THEN "GreensFunctionCalculated"
    ELSE <<"BareSusceptibilityCalculated", "RPASusceptibilitiesCalculated",
           "InteractionVertexCalculated", "SelfEnergyCalculated",
           "GreensFunctionCalculated">>[((i - 2) % 5) + 1]

\* The i-th calculation of a run.
ExpectedCalculation(i) ==
    IF i = 1
    THEN "GreensFunction0"
    ELSE <<"BareSusceptibility", "RPASusceptibilities", "InteractionVertex",
           "SelfEnergy", "GreensFunction">>[((i - 2) % 5) + 1]

\* The convergence parameter that belongs to loop iteration i of this run.
DifferenceOf(i) ==
    CalculateConvergenceParameter(norm, history[i].old, history[i].new)

\* C1: the tags a run assigns are GreensFunctionCalculated, then per loop
\* iteration BareSusceptibilityCalculated, RPASusceptibilitiesCalculated,
\* InteractionVertexCalculated, SelfEnergyCalculated, GreensFunctionCalculated,
\* none skipped, repeated or reordered (a returned run of n iterations has
\* assigned exactly 1 + 5n tags); the tag is NotYetStarted until the first
\* run() assigns one, and only the assignments inside run() change it.
C1_StageSequence ==
    /\ [](\A i \in 1..Len(EventsOf("state")) :
             EventsOf("state")[i].arg = ExpectedStage(i))
    /\ [](Len(EventsOf("state")) > 0 =>
             state = EventsOf("state")[Len(EventsOf("state"))].arg)
    /\ []((runs = 0 \/ (runs = 1 /\ Len(EventsOf("state")) = 0)) =>
             state = "NotYetStarted")
    /\ [](RunReturned => Len(EventsOf("state")) = 1 + 5 * Len(history))
    /\ [][state' # state => pc = "state" /\ pc' = "callback"]_vars

\* C1 witness: a run has returned after two full loop iterations.
C1_Witness ==
    /\ RunReturned
    /\ Len(history) = 2
    /\ Len(EventsOf("state")) = 11
    /\ state = "GreensFunctionCalculated"

\* C2: at the test of line 105 the convergence parameter is the one computed
\* from oldGreensFunction and the recomputed greensFunction under the norm.
C2_ParameterRecomputed ==
    pc = "converge" =>
        LET v == CalculateConvergenceParameter(norm, oldGreensFunction, greensFunction)
        IN  \/ IsNaN(v) /\ IsNaN(convergenceParameter)
            \/ SameValue(v, convergenceParameter)

\* C3: a returned run has executed at most maxIterations iterations, none of
\* them but the last had a difference below the tolerance, and it stopped
\* short of maxIterations only because the last one had.
C3_StopsAtFirstConvergedIteration ==
    RunReturned =>
        /\ Len(history) <= maxIterations
        /\ \A i \in 1..(Len(history) - 1) : ~LessThan(DifferenceOf(i), tolerance)
        /\ Len(history) < maxIterations =>
               /\ Len(history) > 0
               /\ LessThan(DifferenceOf(Len(history)), tolerance)

\* Every recomputation of this run reproduced the Green's function it started from.
GreensFunctionUnchanged ==
    \A i \in 1..Len(history) : history[i].new = history[i].old

\* The number of times a callback set for the whole run could read the
\* convergence parameter after a recomputation of the Green's function.
Recomputations ==
    Len(SelectSeq(trace, LAMBDA e : e = Event("calc", "GreensFunction")))

\* C4 as stated: on a system whose Green's function does not change, a run
\* with maxIterations = N executes exactly N recomputations.
C4_ExactlyMaxIterations ==
    (RunReturned /\ GreensFunctionUnchanged) =>
        (Len(history) = maxIterations /\ Recomputations = maxIterations)

\* C4 amended: on such a system the run executes exactly N recomputations
\* when 0 < tolerance is false, and exactly one (none for N = 0) when the
\* tolerance is positive, the parameter 0 being below it after the first
\* iteration.
C4_ExactlyMaxIterationsUnlessTolerancePositive ==
    (RunReturned /\ GreensFunctionUnchanged) =>
        /\ Recomputations = Len(history)
        /\ tolerance.num <= 0 => Len(history) = maxIterations
        /\ tolerance.num > 0 =>
               Len(history) = (IF maxIterations = 0 THEN 0 ELSE 1)

\* C4 witness: a run with maxIterations = 2 and tolerance 0 has returned
\* after two recomputations that changed nothing.
C4_Witness ==
    /\ RunReturned
    /\ GreensFunctionUnchanged
    /\ maxIterations = 2
    /\ tolerance.num = 0
    /\ Len(history) = 2

\* C5: with a callback set, every tag assignment is followed at once by one
\* callback invocation that sees the new tag, and comes right after the
\* calculation of its stage; a returned run of n iterations has made 1 + 5n
\* invocations; with no callback set there is none, and the calculations and
\* tag assignments are the same (stated of a run in progress or just returned).
C5_CallbackAfterEveryStage ==
    pc # "idle" =>
        /\ \A i \in 1..Len(trace) :
              /\ trace[i].ev = "state" =>
                    /\ i > 1
                    /\ trace[i - 1].ev = "calc"
                    /\ (callback /\ i < Len(trace)) =>
                           trace[i + 1] = Event("callback", trace[i].arg)
                    /\ (callback /\ i = Len(trace)) => pc = "callback"
              /\ trace[i].ev = "callback" =>
                    /\ callback
                    /\ i > 1
                    /\ trace[i - 1] = Event("state", trace[i].arg)
        /\ \A i \in 1..Len(EventsOf("calc")) :
              EventsOf("calc")[i].arg = ExpectedCalculation(i)
        /\ Len(EventsOf("state")) <= Len(EventsOf("calc"))
        /\ Len(EventsOf("calc")) <= Len(EventsOf("state")) + 1
        /\ RunReturned =>
              /\ Len(EventsOf("calc")) = 1 + 5 * Len(history)
              /\ Len(EventsOf("callback")) =
                    (IF callback THEN 1 + 5 * Len(history) ELSE 0)

\* C5 witness: a run with a callback set has returned after two iterations
\* and eleven invocations.
C5_Witness ==
    /\ RunReturned
    /\ callback
    /\ Len(history) = 2
    /\ Len(EventsOf("callback")) = 11

\* C7: a run on a mesh that is not two-dimensional ends in the fatal error of
\* calculateBareGreensFunction, with the tag still NotYetStarted, no callback
\* invoked and no result produced.
C7_FatalBeforeAnyStage ==
    /\ pc = "fatal" =>
          /\ numMeshDimensions # 2
          /\ state = "NotYetStarted"
          /\ trace = <<>>
          /\ greensFunction0 = <<>>
          /\ greensFunction = <<>>
    /\ (numMeshDimensions # 2 /\ runs > 0) =>
          (pc = "fatal" \/ (pc = "calc" /\ step = 0))

\* C7 witness: run() with a callback set has failed on a one-dimensional mesh.
C7_Witness ==
    /\ pc = "fatal"
    /\ numMeshDimensions = 1
    /\ callback

(***************************************************************************)
(* FLEX::calculateConvergenceParameter on its own: the function applied to *)
(* any pair of Green's function data vectors under any norm value.         *)
(***************************************************************************)
NormDataLen == 2

Amplitudes == {Zero, One, ImagUnit, Two}

DataVectors == UNION {[1..n -> Amplitudes] : n \in 1..NormDataLen}

InitNorm ==
    /\ state = "NotYetStarted"
    /\ maxIterations = 1
    /\ callback = FALSE
    /\ norm \in Norms \cup {"Unknown"}
    /\ tolerance = [num |-> 0, den |-> 1]
    /\ convergenceParameter = Quotient(0, 1, FALSE)
    /\ greensFunction0 = <<>>
    /\ greensFunction \in DataVectors
    /\ oldGreensFunction \in DataVectors
    /\ numMeshDimensions = 2
    /\ pc = "convergence"
    /\ iteration = 0
    /\ trace = <<>>
    /\ step = 0
    /\ history = <<>>
    /\ runs = 0
    /\ IdleLDOS
    /\ IdleExtractor
    /\ IdleSP_LDOS
    /\ IdleTree
    /\ IdleRest

\* FLEX::calculateConvergenceParameter (375-422): fatal on data of different
\* sizes (379-384) and on an unknown norm (415-420), else the quotient.
CalculateConvergenceParameterCall ==
    /\ pc = "convergence"
    /\ IF Len(oldGreensFunction) # Len(greensFunction) \/ norm \notin Norms
       THEN /\ pc' = "fatal"
            /\ UNCHANGED convergenceParameter
       ELSE /\ pc' = "computed"
            /\ convergenceParameter' =
                  CalculateConvergenceParameter(norm, oldGreensFunction, greensFunction)
    /\ UNCHANGED <<state, maxIterations, callback, norm, tolerance,
                   greensFunction0, greensFunction, oldGreensFunction,
                   numMeshDimensions, iteration, trace, step, history, runs>>
    /\ UNCHANGED nonFlexVars

NextNorm == CalculateConvergenceParameterCall

SpecNorm == InitNorm /\ [][NextNorm]_vars

\* C6: for new data equal to the old data element for element, the function
\* yields exactly 0, under either norm and for every data vector.
C6_ZeroOnUnchangedData ==
    (pc = "computed" /\ greensFunction = oldGreensFunction) =>
        IsZero(convergenceParameter)

(***************************************************************************)
(* PropertyExtractorChebyshev: constructor, destructor and                 *)
(* calculateGreensFunctions (part_000:10-39, 48-89).                       *)
(***************************************************************************)
MaxCoefficients == 2
MaxTargets == 2

\* A call of loadLookupTableGPU ("load") or destroyLookupTableGPU ("destroy")
\* on the solver, made by the constructor, a compute call or the destructor.
GPUCall(op, caller) == [op |-> op, by |-> caller]

\* Lines 23-31 without the else branch of lines 28-31.
ConstructorOutcome_NoCheck(lut, gpu) ==
    IF lut
    THEN [fatal |-> FALSE, generate |-> TRUE, load |-> gpu]
    ELSE [fatal |-> FALSE, generate |-> FALSE, load |-> FALSE]

\* Lines 23-31: what the constructor does for the flags useLookupTable and
\* useGPUToGenerateGreensFunctions.
ConstructorOutcome(lut, gpu) ==
    IF lut
    THEN [fatal |-> FALSE, generate |-> TRUE, load |-> gpu]
    ELSE IF gpu
         THEN [fatal |-> TRUE, generate |-> FALSE, load |-> FALSE]
         ELSE [fatal |-> FALSE, generate |-> FALSE, load |-> FALSE]

\* The arguments of a constructor call.
CallConstructor ==
    /\ lifetime = "constructing"
    /\ numCoefficients \in 1..MaxCoefficients
    /\ useGPUToCalculateCoefficients \in BOOLEAN
    /\ useGPUToGenerateGreensFunctions \in BOOLEAN
    /\ useLookupTable \in BOOLEAN
    /\ lookupTables = 0
    /\ gpuLog = <<>>
    /\ numTargets = 0
    /\ greensFunctions = <<>>
    /\ writers = <<>>
    /\ progress = <<>>
    /\ gfPc = "idle"

\* Lines 16-31.
Constructor ==
    /\ lifetime = "constructing"
    /\ LET o == ConstructorOutcome(useLookupTable, useGPUToGenerateGreensFunctions)
       IN  /\ lookupTables' = IF o.generate THEN lookupTables + 1 ELSE lookupTables
           /\ gpuLog' = IF o.load
                        THEN Append(gpuLog, GPUCall("load", "constructor"))
                        ELSE gpuLog
           /\ lifetime' = IF o.fatal THEN "fatal" ELSE "constructed"
    /\ UNCHANGED <<numCoefficients, useGPUToCalculateCoefficients,
                   useGPUToGenerateGreensFunctions, useLookupTable, numTargets,
                   greensFunctions, writers, progress, gfPc>>
    /\ UNCHANGED <<flexVars, ldosVars, spVars, treeVars, restVars>>

\* Line 35 with the test made on useLookupTable.
DestroysLookupTableGPU_IfLookupTable == useLookupTable

\* Line 35: the condition under which the destructor calls
\* destroyLookupTableGPU.
DestroysLookupTableGPU == useGPUToGenerateGreensFunctions

\* Lines 34-39, on an extractor no call is running on.
Destructor ==
    /\ lifetime = "constructed"
    /\ gfPc \in {"idle", "returned"}
    /\ gpuLog' = IF DestroysLookupTableGPU
                 THEN Append(gpuLog, GPUCall("destroy", "destructor"))
                 ELSE gpuLog
    /\ lifetime' = "destroyed"
    /\ UNCHANGED <<numCoefficients, useGPUToCalculateCoefficients,
                   useGPUToGenerateGreensFunctions, useLookupTable, lookupTables,
                   numTargets, greensFunctions, writers, progress, gfPc>>
    /\ UNCHANGED <<flexVars, ldosVars, spVars, treeVars, restVars>>

\* Stand-in for the value at energy e of the Green's function reconstructed
\* from the coefficients of target n: never zero, different for different
\* targets and energies.
GreensFunctionOf(n, e) == <<n + 1, e + 1>>

\* Lines 49, 52 and 64: the coefficients of target n are kept at
\* coefficients[n*numCoefficients ...], in a buffer of
\* energyResolution*to.size() elements; the block of the last target ends
\* past the buffer if this holds.
CoefficientsOverflow(t) == t * numCoefficients > energyResolution * t

\* Lines 49-59: the coefficients are calculated (exit(1) unless on the GPU)
\* and the output buffer is allocated, its elements value-initialised. Using
\* coefficients past their buffer is undefined behaviour: the process ends
\* or the call goes on.
CalculateGreensFunctions ==
    /\ lifetime = "constructed"
    /\ gfPc \in {"idle", "returned"}
    /\ \E t \in 1..MaxTargets :
          /\ numTargets' = t
          /\ IF ~useGPUToCalculateCoefficients
             THEN /\ gfPc' = "fatal"
                  /\ UNCHANGED <<greensFunctions, writers, progress>>
             ELSE \/ /\ greensFunctions' = [k \in 0..(energyResolution * t - 1) |-> Zero]
                     /\ writers' = [k \in 0..(energyResolution * t - 1) |-> {}]
                     /\ progress' = [n \in 0..(t - 1) |-> 0]
                     /\ gfPc' = "reconstruct"
                  \/ /\ CoefficientsOverflow(t)
                     /\ gfPc' = "crashed"
                     /\ UNCHANGED <<greensFunctions, writers, progress>>
    /\ UNCHANGED <<lifetime, numCoefficients, useGPUToCalculateCoefficients,
                   useGPUToGenerateGreensFunctions, useLookupTable, lookupTables,
                   gpuLog>>
    /\ UNCHANGED <<flexVars, ldosVars, spVars, treeVars, restVars>>

\* Lines 63, 71 and 78: every loop iteration hands generateGreensFunction the
\* buffer greensFunction itself, so the value for energy e goes to element e
\* whatever the target n is.
OutputElement(n, e) == e

\* Lines 61-84: one element written by the loop iteration of target n. The
\* loop of lines 62-65 runs its iterations in order; the loops under
\* "omp parallel for" (70-73, 77-82) run them concurrently.
GenerateGreensFunction ==
    /\ gfPc = "reconstruct"
    /\ \E n \in DOMAIN progress :
          /\ progress[n] < energyResolution
          /\ useGPUToGenerateGreensFunctions =>
                \A m \in DOMAIN progress : m < n => progress[m] = energyResolution
          /\ LET e == progress[n]
                 k == OutputElement(n, e)
             IN  /\ greensFunctions' = [greensFunctions EXCEPT ![k] = GreensFunctionOf(n, e)]
                 /\ writers' = [writers EXCEPT ![k] = @ \cup {n}]
                 /\ progress' = [progress EXCEPT ![n] = e + 1]
    /\ UNCHANGED <<lifetime, numCoefficients, useGPUToCalculateCoefficients,
                   useGPUToGenerateGreensFunctions, useLookupTable, lookupTables,
                   gpuLog, numTargets, gfPc>>
    /\ UNCHANGED <<flexVars, ldosVars, spVars, treeVars, restVars>>

\* Lines 86-88: all iterations are through, the buffer is returned.
ReturnGreensFunctions ==
    /\ gfPc = "reconstruct"
    /\ \A n \in DOMAIN progress : progress[n] = energyResolution
    /\ gfPc' = "returned"
    /\ UNCHANGED <<lifetime, numCoefficients, useGPUToCalculateCoefficients,
                   useGPUToGenerateGreensFunctions, useLookupTable, lookupTables,
                   gpuLog, numTargets, greensFunctions, writers, progress>>
    /\ UNCHANGED <<flexVars, ldosVars, spVars, treeVars, restVars>>

\* calculate() and calculateLDOS are not running; the extractor's
\* energyResolution is a constructor argument.
InitExtractor ==
    /\ IdleFLEX
    /\ energyResolution \in 1..MaxEnergyResolution
    /\ pattern = <<>>
    /\ ranges = <<>>
    /\ ldosArraySize = 0
    /\ ldos = <<>>
    /\ overflow = {}
    /\ stack = <<>>
    /\ calls = <<>>
    /\ depth = 0
    /\ ldPc = "idle"
    /\ CallConstructor
    /\ IdleSP_LDOS
    /\ IdleTree
    /\ IdleRest

NextExtractor ==
    \/ Constructor
    \/ CalculateGreensFunctions
    \/ GenerateGreensFunction
    \/ ReturnGreensFunctions
    \/ Destructor

SpecExtractor == InitExtractor /\ [][NextExtractor]_vars

Loads == SelectSeq(gpuLog, LAMBDA c : c.op = "load")

Destroys == SelectSeq(gpuLog, LAMBDA c : c.op = "destroy")

\* C12: the buffer calculateGreensFunctions returns has energyResolution x
\* numTargets elements, and for every target n the elements n*energyResolution
\* .. n*energyResolution + energyResolution - 1 hold the Green's function
\* reconstructed from the coefficients of target n.
C12_TargetMajorLayout ==
    (gfPc = "returned") =>
        /\ DOMAIN greensFunctions = 0..(energyResolution * numTargets - 1)
        /\ \A n \in 0..(numTargets - 1) : \A e \in 0..(energyResolution - 1) :
              greensFunctions[n * energyResolution + e] = GreensFunctionOf(n, e)

\* C13: in the loops that run under "omp parallel for", every element of the
\* output buffer is written by the iteration of its own target only, so no
\* element is written by two iterations.
C13_DisjointWrites ==
    (gfPc \in {"reconstruct", "returned"} /\ ~useGPUToGenerateGreensFunctions) =>
        \A k \in DOMAIN writers :
            /\ writers[k] \subseteq {k \div energyResolution}
            /\ Cardinality(writers[k]) <= 1

\* C28: the coefficients handed to the reconstruction of target n, the
\* numCoefficients elements from n*numCoefficients on, lie inside the
\* coefficient buffer of energyResolution*to.size() elements, and the slices
\* of different targets share no element.
C28_CoefficientSlicesInside ==
    (gfPc \in {"reconstruct", "returned", "crashed"}) =>
        /\ \A n \in 0..(numTargets - 1) : \A k \in 0..(numCoefficients - 1) :
              n * numCoefficients + k < energyResolution * numTargets
        /\ \A n \in 0..(numTargets - 1) : \A m \in 0..(numTargets - 1) :
              n < m => n * numCoefficients + numCoefficients - 1 < m * numCoefficients

\* C14: the constructor ends in a fatal error, with no lookup table generated
\* or loaded, exactly for useLookupTable = false with
\* useGPUToGenerateGreensFunctions = true; for every other combination it
\* succeeds and has generated the lookup table exactly when useLookupTable is
\* true.
C14_FatalFlagCombination ==
    (lifetime # "constructing") =>
        IF ~useLookupTable /\ useGPUToGenerateGreensFunctions
        THEN /\ lifetime = "fatal"
             /\ lookupTables = 0
             /\ gpuLog = <<>>
        ELSE /\ lifetime \in {"constructed", "destroyed"}
             /\ lookupTables = (IF useLookupTable THEN 1 ELSE 0)

\* The constructor has ended in the fatal error.
C14_Witness ==
    /\ lifetime = "fatal"
    /\ ~useLookupTable
    /\ useGPUToGenerateGreensFunctions

\* C15: for a constructed extractor the lookup table is loaded to the GPU at
\* most once and by the constructor only, no compute call loads or destroys
\* it, it is not destroyed while the extractor lives, and the destructor
\* destroys it (once, after the load) if and only if the constructor loaded it.
C15_LookupTableLifetime ==
    (lifetime \in {"constructed", "destroyed"}) =>
        /\ Len(Loads) <= 1
        /\ \A i \in 1..Len(gpuLog) :
              /\ gpuLog[i].by # "compute"
              /\ gpuLog[i].op = "load" => (gpuLog[i].by = "constructor" /\ i = 1)
              /\ gpuLog[i].op = "destroy" =>
                    (gpuLog[i].by = "destructor" /\ i = 2 /\ gpuLog[1].op = "load")
        /\ (lifetime = "constructed") => Len(Destroys) = 0
        /\ (lifetime = "destroyed") => Len(Destroys) = Len(Loads)

\* An extractor that loaded the table, served a compute call and was
\* destroyed.
C15_Witness ==
    /\ lifetime = "destroyed"
    /\ gfPc = "returned"
    /\ gpuLog = <<GPUCall("load", "constructor"), GPUCall("destroy", "destructor")>>

(***************************************************************************)
(* PropertyExtractorChebyshev::calculateSP_LDOS and its callback           *)
(* (part_000:111-147, 158-174), on top of calculate().                     *)
(***************************************************************************)
\* The spin flag of Index.h: a wildcard value below IDX_ALL.
IDX_SPIN == -6

SPPatternEntries == {IDX_SPIN, IDX_ALL, IDX_SUM_ALL, 0}

\* Lines 113-121 with the first subindex taken when no entry is IDX_SPIN.
RECURSIVE SpinIndex_DefaultFirst(_, _)
SpinIndex_DefaultFirst(pat, n) ==
    IF n >= Len(pat)
    THEN 0
    ELSE IF pat[n + 1] = IDX_SPIN THEN n ELSE SpinIndex_DefaultFirst(pat, n + 1)

\* Lines 113-121: the first subindex (counted from 0) whose entry is
\* IDX_SPIN, -1 if there is none.
RECURSIVE SpinIndex(_, _)
SpinIndex(pat, n) ==
    IF n >= Len(pat)
    THEN -1
    ELSE IF pat[n + 1] = IDX_SPIN THEN n ELSE SpinIndex(pat, n + 1)

\* Stand-in for greensFunction[e] of calculateGreensFunction(to, from).
SPGreensFunction(to, from, e) ==
    1 + e + 2 * IndexWeight(to, 1) + 3 * IndexWeight(from, 1)

\* Line 170: the elements the callback writes for an offset.
SPWrittenIndices(offset) ==
    {4 * energyResolution * offset + 4 * e + n :
        e \in 0..(energyResolution - 1), n \in 0..3}

\* Lines 164-173 on the elements that lie inside the buffer.
SP_LDOSCallback(buffer, index, offset) ==
    [k \in DOMAIN buffer |->
        IF k \in SPWrittenIndices(offset)
        THEN LET j == k - 4 * energyResolution * offset
                 n == j % 4
                 e == j \div 4
                 to == [index EXCEPT ![hint + 1] = n \div 2]
                 from == [index EXCEPT ![hint + 1] = n % 2]
             IN  SPGreensFunction(to, from, e)
        ELSE buffer[k]]

\* A call calculateSP_LDOS(pattern, ranges) on an extractor of some energy
\* resolution.
CallSP_LDOS ==
    /\ energyResolution \in 1..MaxEnergyResolution
    /\ \E len \in 1..MaxLen :
          /\ pattern \in [1..len -> SPPatternEntries]
          /\ ranges \in [1..len -> 0..MaxRange]
    /\ ldosArraySize = 0
    /\ ldos = <<>>
    /\ overflow = {}
    /\ stack = <<>>
    /\ calls = <<>>
    /\ depth = 0
    /\ ldPc = "callSP"
    /\ hint = -1
    /\ sp_ldosArraySize = 0
    /\ sp_ldos = <<>>
    /\ spReturn = "none"
    /\ errorReports = 0
    /\ greensFunctionCalls = 0

\* Lines 112-142: the spin subindex is looked for; without one the error is
\* reported and NULL returned; with one it is pinned to 0 in the local
\* pattern, the buffer is allocated and zeroed and calculate() is entered.
CalculateSP_LDOS ==
    /\ ldPc = "callSP"
    /\ hint' = SpinIndex(pattern, 0)
    /\ IF hint' = -1
       THEN /\ errorReports' = errorReports + 1
            /\ spReturn' = "NULL"
            /\ ldPc' = "done"
            /\ UNCHANGED <<ranges, sp_ldosArraySize, sp_ldos, stack, depth>>
       ELSE LET pinned == [pattern EXCEPT ![hint' + 1] = 0]
            IN  /\ ranges' = NormalizedRanges(pinned, [ranges EXCEPT ![hint' + 1] = 1])
                /\ sp_ldosArraySize' = ArraySize(pinned, ranges', 1)
                /\ sp_ldos' = [k \in 0..(4 * sp_ldosArraySize' - 1) |-> 0]
                /\ stack' = <<Frame(pinned, 0, 1)>>
                /\ depth' = 1
                /\ ldPc' = "calculate"
                /\ UNCHANGED <<errorReports, spReturn>>
    /\ UNCHANGED <<energyResolution, pattern, ldosArraySize, ldos, overflow,
                   calls, greensFunctionCalls>>
    /\ UNCHANGED <<flexVars, extractorVars, treeVars, restVars>>

\* Lines 184-186 and 158-174: no wildcard is left, the callback runs (four
\* calls of calculateGreensFunction) and calculate() returns. A write past
\* the end of the buffer is undefined behaviour: it lands outside the buffer,
\* or the process ends.
CalculateSP_LDOSCallback ==
    /\ ldPc = "calculate"
    /\ Top.at = "entry"
    /\ LastWildcard(Top.pattern, Len(Top.pattern) - 1) = -1
    /\ calls' = Append(calls, [index |-> Top.pattern, offset |-> Top.currentOffset])
    /\ greensFunctionCalls' = greensFunctionCalls + 4
    /\ sp_ldos' = SP_LDOSCallback(sp_ldos, Top.pattern, Top.currentOffset)
    /\ overflow' = overflow \cup (SPWrittenIndices(Top.currentOffset) \ DOMAIN sp_ldos)
    /\ \/ /\ stack' = Returned(stack)
          /\ ldPc' = PositionAfter(stack')
       \/ /\ overflow' # {}
          /\ stack' = stack
          /\ ldPc' = "crashed"
    /\ UNCHANGED <<energyResolution, pattern, ranges, ldosArraySize, ldos, depth,
                   hint, sp_ldosArraySize, spReturn, errorReports>>
    /\ UNCHANGED <<flexVars, extractorVars, treeVars, restVars>>

\* Lines 144-146: calculate() has returned; the buffer is returned.
ReturnSP_LDOS ==
    /\ ldPc = "done"
    /\ spReturn = "none"
    /\ spReturn' = "sp_ldos"
    /\ UNCHANGED <<hint, sp_ldosArraySize, sp_ldos, errorReports, greensFunctionCalls>>
    /\ UNCHANGED <<flexVars, ldosVars, extractorVars, treeVars, restVars>>

InitSP_LDOS ==
    /\ IdleFLEX
    /\ CallSP_LDOS
    /\ IdleExtractor
    /\ IdleTree
    /\ IdleRest

NextSP_LDOS ==
    \/ CalculateSP_LDOS
    \/ CalculateSP_LDOSCallback
    \/ CalculateDescend
    \/ CalculateLoop
    \/ ReturnSP_LDOS

SpecSP_LDOS == InitSP_LDOS /\ [][NextSP_LDOS]_vars

\* C16: calculateSP_LDOS on a pattern without an IDX_SPIN entry reports one
\* error and returns NULL; the callback has not run, calculate() was not
\* entered and no Green's function was calculated.
C16_NoSpinIndexReturnsNull ==
    (ldPc # "callSP" /\ \A i \in Axes : pattern[i] # IDX_SPIN) =>
        /\ ldPc = "done"
        /\ spReturn = "NULL"
        /\ errorReports = 1
        /\ calls = <<>>
        /\ greensFunctionCalls = 0
        /\ stack = <<>>
        /\ depth = 0
        /\ sp_ldos = <<>>

\* The call has returned NULL for a pattern of two wildcards, none the spin.
C16_Witness ==
    /\ ldPc = "done"
    /\ spReturn = "NULL"
    /\ pattern = <<IDX_ALL, IDX_SUM_ALL>>
    /\ ranges = <<2, 2>>

(***************************************************************************)
(* StateTreeNode (part_001:31-320) over a two-dimensional coordinate       *)
(* space. Coordinates, extents and half sizes are integers; a half size is *)
(* divisible by 2 as often as the node may be split, so that halving it    *)
(* is exact as it is for the doubles of the code. The sums and differences *)
(* of doubles in the constructors and in addRecursive are rounded to the   *)
(* nearest value with MantissaBits significant bits, ties to even, as the  *)
(* 53-bit doubles of the code are; the integers of the trees built with a  *)
(* given center are small enough to be exact. Distances are compared       *)
(* through their squares.                                                  *)
(***************************************************************************)
MaxStoredStates == 2
MaxDepth == 2
MantissaBits == 3

\* The coordinate axes: center.size() = 2.
TreeAxes == {1, 2}

\* Line 50: numSpacePartitions(pow(2, center.size())).
NumSpacePartitions == 2 ^ Cardinality(TreeAxes)

RootHalfSizes == {1, 2, 4}

\* Coordinates of the states added and of the queries made.
TreePoints == {<<0, 0>>, <<1, 1>>, <<-1, 1>>, <<2, 2>>, <<3, 0>>}

FiniteExtents == {0, 1}

\* An AbstractState as the tree sees it: getCoordinates(), getExtent() and
\* hasFiniteExtent(); id tells the objects apart. The extent of a state
\* without finite extent is infinite, whatever the field extent holds.
State(id, coordinates, extent, finite) ==
    [id |-> id, coordinates |-> coordinates, extent |-> extent, finite |-> finite]

\* The states an add() call may be given as its id-th state.
CandidateStates(id) ==
    {State(id, c, e, TRUE) : c \in TreePoints, e \in FiniteExtents}
        \cup {State(id, <<3, 0>>, 0, FALSE)}

Abs(x) == IF x < 0 THEN -x ELSE x

\* The unit in the last place of the doubles around the natural x: the
\* smallest power of two u with x < u * 2^MantissaBits.
RECURSIVE UnitInTheLastPlace(_, _)
UnitInTheLastPlace(x, u) ==
    IF x < u * (2 ^ MantissaBits) THEN u ELSE UnitInTheLastPlace(x, 2 * u)

\* The double an arithmetic operation with the exact result x yields
\* (lines 82-83, 99-102, 108-110, 181, 194, 210): x rounded to the nearest
\* multiple of its unit in the last place, a tie going to the even multiple.
Round(x) ==
    LET u == UnitInTheLastPlace(Abs(x), 1)
        q == Abs(x) \div u
        r == Abs(x) % u
        m == IF 2 * r > u \/ (2 * r = u /\ q % 2 = 1) THEN q + 1 ELSE q
    IN  IF x < 0 THEN -(m * u) ELSE m * u

\* Lines 45-57: a node without states and without children; its
\* numSpacePartitions is pow(2, center.size()) of the constructor's argument.
Node(center, halfSize, maxDepth) ==
    [center |-> center, halfSize |-> halfSize, maxDepth |-> maxDepth,
     numSpacePartitions |-> NumSpacePartitions, states |-> <<>>]

\* stateTreeNodes.size() != 0 for the node at path p.
HasChildren(t, p) == Append(p, 0) \in DOMAIN t

\* Lines 208-211: the center of child n, center + ((n/(1 << c))%2 - 1/2.)*halfSize
\* on every axis (c counted from 0 in the code).
SubCenter(node, n) ==
    [c \in TreeAxes |->
        Round(node.center[c]
                + (2 * ((n \div (2 ^ (c - 1))) % 2) - 1) * (node.halfSize \div 2))]

\* Lines 206-215: the children are created unless they exist.
CreateChildren(t, p) ==
    IF HasChildren(t, p)
    THEN t
    ELSE LET children == {Append(p, n) : n \in 0..(t[p].numSpacePartitions - 1)}
         IN  [q \in DOMAIN t \cup children |->
                 IF q \in DOMAIN t
                 THEN t[q]
                 ELSE Node(SubCenter(t[p], q[Len(q)]), t[p].halfSize \div 2,
                           t[p].maxDepth - 1)]

\* states.push_back(state) on the node at path p.
PushBack(t, p, s) == [t EXCEPT ![p].states = Append(@, s)]

\* Lines 178-188.
LargestRelativeCoordinate(node, s) ==
    LET relativeCoordinates ==
            {Abs(Round(s.coordinates[n] - node.center[n])) : n \in TreeAxes}
    IN  CHOOSE m \in relativeCoordinates \cup {0} :
            \A x \in relativeCoordinates : x <= m

\* Line 194 with the extent of the state left out.
NotContained_ExtentIgnored(node, s) ==
    LargestRelativeCoordinate(node, s) > node.halfSize

\* Line 194: largestRelativeCoordinate + state->getExtent() > halfSize.
NotContained(node, s) ==
    Round(LargestRelativeCoordinate(node, s) + s.extent) > node.halfSize

\* Lines 167-228: the result of addRecursive on the node at path p and the
\* tree it leaves behind.
RECURSIVE AddRecursive(_, _, _)
RECURSIVE TryChildren(_, _, _, _)
AddRecursive(t, p, s) ==
    IF ~s.finite
    THEN [added |-> TRUE, tree |-> PushBack(t, p, s)]
    ELSE IF NotContained(t[p], s)
         THEN [added |-> FALSE, tree |-> t]
         ELSE IF t[p].maxDepth = 0
              THEN [added |-> TRUE, tree |-> PushBack(t, p, s)]
              ELSE TryChildren(CreateChildren(t, p), p, 0, s)

\* Lines 218-227: the stateTreeNodes.size() children are tried in order; if
\* none takes the state it is stored on the node itself.
TryChildren(t, p, n, s) ==
    IF n >= t[p].numSpacePartitions
    THEN [added |-> TRUE, tree |-> PushBack(t, p, s)]
    ELSE LET r == AddRecursive(t, Append(p, n), s)
         IN  IF r.added THEN r ELSE TryChildren(r.tree, p, n + 1, s)

\* The sum over the axes of pow(a[n] - b[n], 2): the square of the distance
\* of lines 286-289 and 303-306.
RECURSIVE SumOfSquares(_, _, _)
SumOfSquares(a, b, axes) ==
    IF axes = {}
    THEN 0
    ELSE LET n == CHOOSE x \in axes : TRUE
         IN  (a[n] - b[n]) * (a[n] - b[n]) + SumOfSquares(a, b, axes \ {n})

DistanceSquared(a, b) == SumOfSquares(a, b, TreeAxes)

\* sqrt(a) > sqrt(b) + r for naturals a, b, r.
SqrtExceeds(a, b, r) ==
    /\ a > b
    /\ a + b - r * r > 0
    /\ (a + b - r * r) * (a + b - r * r) > 4 * a * b

\* Line 295: distance > sqrt(center.size()*pow(halfSize, 2)) + extent.
Pruned(node, coordinates, extent) ==
    SqrtExceeds(DistanceSquared(coordinates, node.center),
                Cardinality(TreeAxes) * node.halfSize * node.halfSize, extent)

\* Line 308: distance < extent + states.at(n)->getExtent().
Overlaps(s, coordinates, extent) ==
    IF ~s.finite
    THEN TRUE
    ELSE DistanceSquared(coordinates, s.coordinates)
             < (extent + s.extent) * (extent + s.extent)

\* Lines 280-320: overlappingStates after the call on the node at path p.
RECURSIVE GetOverlappingStatesRecursive(_, _, _, _, _)
RECURSIVE VisitChildren(_, _, _, _, _, _)
GetOverlappingStatesRecursive(t, p, acc, coordinates, extent) ==
    IF Pruned(t[p], coordinates, extent)
    THEN acc
    ELSE LET own == acc \o SelectSeq(t[p].states,
                                     LAMBDA s : Overlaps(s, coordinates, extent))
         IN  IF HasChildren(t, p)
             THEN VisitChildren(t, p, 0, own, coordinates, extent)
             ELSE own

\* Lines 313-319.
VisitChildren(t, p, n, acc, coordinates, extent) ==
    IF n >= t[p].numSpacePartitions
    THEN acc
    ELSE VisitChildren(t, p, n + 1,
                       GetOverlappingStatesRecursive(t, Append(p, n), acc,
                                                     coordinates, extent),
                       coordinates, extent)

\* No add() call has been made yet.
NoState == State(0, <<0, 0>>, 0, TRUE)

\* Lines 45-57: a root around the origin.
ConstructTree ==
    /\ \E h \in RootHalfSizes : \E d \in 0..MaxDepth :
          /\ h % (2 ^ d) = 0
          /\ tree = [p \in {<<>>} |-> Node(<<0, 0>>, h, d)]
    /\ treePc = "constructed"
    /\ added = <<>>
    /\ addArgument = NoState
    /\ queryCoordinates = <<0, 0>>
    /\ queryExtent = 0
    /\ overlappingStates = <<>>

\* Line 133 with the result of addRecursive disregarded.
AddFails_Never(r) == FALSE

\* Line 133: if(!addRecursive(state)).
AddFails(r) == ~r.added

\* Lines 122-165: add(state) on the root; TBTKExit if addRecursive fails.
Add ==
    /\ treePc \in {"constructed", "added", "queried"}
    /\ Len(added) < MaxStoredStates
    /\ \E s \in CandidateStates(Len(added) + 1) :
          LET r == AddRecursive(tree, <<>>, s)
          IN  /\ addArgument' = s
              /\ tree' = r.tree
              /\ IF AddFails(r)
                 THEN /\ treePc' = "fatal"
                      /\ added' = added
                 ELSE /\ treePc' = "added"
                      /\ added' = Append(added, s)
    /\ queryCoordinates' = <<0, 0>>
    /\ queryExtent' = 0
    /\ overlappingStates' = <<>>
    /\ UNCHANGED <<flexVars, ldosVars, extractorVars, spVars, restVars>>

QueryExtents == {0, 1}

\* Lines 259-278: getOverlappingStates(coordinates, extent) on the root.
GetOverlappingStates ==
    /\ treePc \in {"constructed", "added", "queried"}
    /\ \E coordinates \in TreePoints : \E extent \in QueryExtents :
          /\ queryCoordinates' = coordinates
          /\ queryExtent' = extent
          /\ overlappingStates' =
                GetOverlappingStatesRecursive(tree, <<>>, <<>>, coordinates, extent)
    /\ treePc' = "queried"
    /\ UNCHANGED <<tree, added, addArgument>>
    /\ UNCHANGED <<flexVars, ldosVars, extractorVars, spVars, restVars>>

InitTree ==
    /\ IdleFLEX
    /\ IdleLDOS
    /\ IdleExtractor
    /\ IdleSP_LDOS
    /\ ConstructTree
    /\ IdleRest

NextTree ==
    \/ Add
    \/ GetOverlappingStates

SpecTree == InitTree /\ [][NextTree]_vars

(***************************************************************************)
(* StateTreeNode(stateSet, maxDepth) (part_001:59-117) and the two         *)
(* ModelFactory::createModel overloads that take a StateSet                *)
(* (part_001:433-584). Coordinates and extents are multiples of 4, so that *)
(* the two halvings of a root and its children stay integers.              *)
(***************************************************************************)
StateSetPoints == {<<8, 8>>, <<40, 40>>, <<8, 40>>}

StateSetExtents == {0, 4, 12}

\* The maxDepth arguments tried.
StateSetDepths == {0, 1}

\* getExtent() of a state without finite extent: larger than every distance.
InfiniteExtent == 1000

\* The states a StateSet may hold as its id-th state.
StateSetCandidates(id) ==
    {State(id, c, e, TRUE) : c \in StateSetPoints, e \in StateSetExtents}
        \cup {State(id, <<40, 8>>, InfiniteExtent, FALSE)}

\* The StateSets handed over: up to MaxStoredStates states.
StateSets ==
    UNION {{states \in [1..len -> UNION {StateSetCandidates(id) : id \in 1..len}] :
                \A id \in 1..len : states[id].id = id} : len \in 0..MaxStoredStates}

\* Lines 78-87: the first state with finite extent from position n on, or
\* states.size() (here Len(states) + 1, positions counted from 1).
RECURSIVE FirstFinite(_, _)
FirstFinite(states, n) ==
    IF n > Len(states) \/ states[n].finite
    THEN n
    ELSE FirstFinite(states, n + 1)

\* Lines 82-83: coordinate - extent and coordinate + extent on every axis.
LowerCorner(s) == [c \in TreeAxes |-> Round(s.coordinates[c] - s.extent)]

UpperCorner(s) == [c \in TreeAxes |-> Round(s.coordinates[c] + s.extent)]

\* Lines 94-104: min and max after the states from position n on.
RECURSIVE BoundingBox(_, _, _, _)
BoundingBox(states, n, min, max) ==
    IF n > Len(states)
    THEN [min |-> min, max |-> max]
    ELSE IF ~states[n].finite
         THEN BoundingBox(states, n + 1, min, max)
         ELSE BoundingBox(states, n + 1,
                  [c \in TreeAxes |->
                      IF min[c] > LowerCorner(states[n])[c]
                      THEN LowerCorner(states[n])[c] ELSE min[c]],
                  [c \in TreeAxes |->
                      IF max[c] < UpperCorner(states[n])[c]
                      THEN UpperCorner(states[n])[c] ELSE max[c]])

\* Lines 76-104: min and max of the constructor.
MinMax(states) ==
    LET n == FirstFinite(states, 1)
    IN  IF n = Len(states) + 1
        THEN [min |-> [c \in TreeAxes |-> 0], max |-> [c \in TreeAxes |-> 0]]
        ELSE BoundingBox(states, n, LowerCorner(states[n]), UpperCorner(states[n]))

\* Lines 106-111: halfSize after the axes in the set axes.
RECURSIVE LargestHalfSpan(_, _)
LargestHalfSpan(box, axes) ==
    IF axes = {}
    THEN 0
    ELSE LET n == CHOOSE x \in axes : \A y \in axes : y <= x
             halfSize == LargestHalfSpan(box, axes \ {n})
         IN  IF halfSize < Round(box.max[n] - box.min[n]) \div 2
             THEN Round(box.max[n] - box.min[n]) \div 2
             ELSE halfSize

\* Lines 59-113: the root before the states are added. Line 63 takes
\* numSpacePartitions from the member center, which holds no coordinate yet:
\* pow(2, 0).
StateSetRoot(states, maxDepth) ==
    LET box == MinMax(states)
    IN  [center |-> [c \in TreeAxes |-> Round(box.min[c] + box.max[c]) \div 2],
         halfSize |-> LargestHalfSpan(box, TreeAxes),
         maxDepth |-> maxDepth,
         numSpacePartitions |-> 2 ^ 0,
         states |-> <<>>]

\* Lines 115-116: add() of the states from position n on; add() ends the
\* program (TBTKExit) when addRecursive fails.
RECURSIVE AddAll(_, _, _)
AddAll(t, states, n) ==
    IF n > Len(states)
    THEN [failed |-> FALSE, tree |-> t, at |-> n]
    ELSE LET r == AddRecursive(t, <<>>, states[n])
         IN  IF AddFails(r)
             THEN [failed |-> TRUE, tree |-> r.tree, at |-> n]
             ELSE AddAll(r.tree, states, n + 1)

\* Lines 59-117: StateTreeNode(stateSet, maxDepth). states.at(0) throws for
\* an empty StateSet.
ConstructFromStateSet ==
    /\ treePc = "absent"
    /\ \E maxDepth \in StateSetDepths :
          IF stateSet = <<>>
          THEN /\ treePc' = "exception"
               /\ UNCHANGED <<tree, added, addArgument>>
          ELSE LET r == AddAll([p \in {<<>>} |-> StateSetRoot(stateSet, maxDepth)],
                               stateSet, 1)
               IN  /\ tree' = r.tree
                   /\ treePc' = IF r.failed THEN "fatal" ELSE "constructed"
                   /\ added' = SubSeq(stateSet, 1, r.at - 1)
                   /\ addArgument' = IF r.failed THEN stateSet[r.at]
                                     ELSE stateSet[Len(stateSet)]
    /\ UNCHANGED <<queryCoordinates, queryExtent, overlappingStates>>
    /\ UNCHANGED <<flexVars, ldosVars, extractorVars, spVars, modelFactoryVars,
                   susceptibilityVars, diagonalizerVars, selfEnergyVars>>

\* The closed balls of two states share a point.
ExtentsIntersect(ket, bra) ==
    \/ ~ket.finite
    \/ ~bra.finite
    \/ DistanceSquared(ket.coordinates, bra.coordinates)
           <= (ket.extent + bra.extent) * (ket.extent + bra.extent)

\* ket->getMatrixElement(*bra) of states whose matrix element is zero
\* exactly when their extents do not intersect.
MatrixElement(ket, bra) == IF ExtentsIntersect(ket, bra) THEN 1 ELSE 0

\* Lines 447-459 and 524-536: the HoppingAmplitude of a bra and a ket.
HoppingAmplitude(amplitude, bra, ket) ==
    [amplitude |-> amplitude, to |-> bra.id, from |-> ket.id]

\* Lines 442-461 and 519-538: the amplitudes added for one ket and the bras
\* from position to on.
RECURSIVE AddHAs(_, _, _, _)
AddHAs(m, ket, bras, to) ==
    IF to > Len(bras)
    THEN m
    ELSE AddHAs(IF MatrixElement(ket, bras[to]) # 0
                THEN Append(m, HoppingAmplitude(MatrixElement(ket, bras[to]),
                                                bras[to], ket))
                ELSE m,
                ket, bras, to + 1)

\* Lines 440-462: every ket against every state of the set.
RECURSIVE ExhaustiveLoop(_, _, _)
ExhaustiveLoop(m, states, from) ==
    IF from > Len(states)
    THEN m
    ELSE ExhaustiveLoop(AddHAs(m, states[from], states, 1), states, from + 1)

\* Lines 515-541: every ket against the states the tree reports for the
\* ket's coordinates and extent.
RECURSIVE TreeLoop(_, _, _, _)
TreeLoop(m, states, t, from) ==
    IF from > Len(states)
    THEN m
    ELSE TreeLoop(AddHAs(m, states[from],
                         GetOverlappingStatesRecursive(t, <<>>, <<>>,
                             states[from].coordinates, states[from].extent),
                         1),
                  states, t, from + 1)

\* Lines 433-505: createModel(stateSet, o); states.at(0) of line 464 throws
\* for an empty StateSet.
CreateModel ==
    /\ model = NoModel
    /\ model' = IF stateSet = <<>>
                THEN [status |-> "exception", amplitudes |-> <<>>]
                ELSE [status |-> "built",
                      amplitudes |-> ExhaustiveLoop(<<>>, stateSet, 1)]
    /\ UNCHANGED <<stateSet, treeModel>>
    /\ UNCHANGED <<flexVars, ldosVars, extractorVars, spVars, treeVars,
                   susceptibilityVars, diagonalizerVars, selfEnergyVars>>

\* Lines 507-584: createModel(stateSet, stateTreeNode, o) with the tree built
\* from the same StateSet.
CreateModelWithTree ==
    /\ treePc = "constructed"
    /\ treeModel = NoModel
    /\ treeModel' = [status |-> "built",
                     amplitudes |-> TreeLoop(<<>>, stateSet, tree, 1)]
    /\ UNCHANGED <<stateSet, model>>
    /\ UNCHANGED <<flexVars, ldosVars, extractorVars, spVars, treeVars,
                   susceptibilityVars, diagonalizerVars, selfEnergyVars>>

\* A StateSet is at hand; no tree and no model is built from it yet.
InitStateSet ==
    /\ IdleFLEX
    /\ IdleLDOS
    /\ IdleExtractor
    /\ IdleSP_LDOS
    /\ IdleTree
    /\ stateSet \in StateSets
    /\ model = NoModel
    /\ treeModel = NoModel
    /\ IdleSusceptibility
    /\ IdleDiagonalizer
    /\ IdleSelfEnergy

NextStateSet ==
    \/ ConstructFromStateSet
    \/ CreateModel
    \/ CreateModelWithTree

SpecStateSet == InitStateSet /\ [][NextStateSet]_vars

(***************************************************************************)
(* Properties of StateTreeNode(stateSet, maxDepth) and of createModel.     *)
(***************************************************************************)
\* The positions of the states with finite extent.
FinitePositions == {i \in 1..Len(stateSet) : stateSet[i].finite}

\* min(coordinate - extent) and max(coordinate + extent) on axis c over the
\* states with finite extent, each difference and sum being a double.
BoxMin(c) ==
    LET lows == {LowerCorner(stateSet[i])[c] : i \in FinitePositions}
    IN  CHOOSE m \in lows : \A x \in lows : m <= x

BoxMax(c) ==
    LET highs == {UpperCorner(stateSet[i])[c] : i \in FinitePositions}
    IN  CHOOSE m \in highs : \A x \in highs : x <= m

\* The half span (max - min)/2. of axis c.
HalfSpan(c) == Round(BoxMax(c) - BoxMin(c)) \div 2

\* The root is the bounding hypercube of the claim.
RootIsBoundingBox ==
    IF FinitePositions = {}
    THEN tree[<<>>].halfSize = 0 /\ \A c \in TreeAxes : tree[<<>>].center[c] = 0
    ELSE /\ \A c \in TreeAxes :
               tree[<<>>].center[c] = Round(BoxMin(c) + BoxMax(c)) \div 2
         /\ \A c \in TreeAxes : HalfSpan(c) <= tree[<<>>].halfSize
         /\ \E c \in TreeAxes : HalfSpan(c) = tree[<<>>].halfSize

\* No add() of the constructor ended the program.
EveryStateInserted == treePc = "constructed" /\ added = stateSet

\* C21: StateTreeNode(stateSet, maxDepth) builds the root as the bounding
\* hypercube of the states with finite extent (center the midpoint of
\* [min(coordinate - extent), max(coordinate + extent)] per axis, halfSize the
\* largest half span, a box of halfSize 0 at the origin if no state has finite
\* extent) and then inserts every state of the set without an insertion
\* failing.
C21_BoundingBoxHoldsEveryState ==
    (stateSet # <<>> /\ treePc \in {"constructed", "fatal"}) =>
        RootIsBoundingBox /\ EveryStateInserted

\* The numbers of the children the node at path p has.
ChildNumbers(p) == {n \in 0..(2 ^ Cardinality(TreeAxes)) : Append(p, n) \in DOMAIN tree}

\* Some state with finite extent is stored at or below the node at path p.
HoldsLocalState(p) ==
    \E q \in DOMAIN tree :
        /\ Len(q) >= Len(p)
        /\ SubSeq(q, 1, Len(p)) = p
        /\ \E i \in 1..Len(tree[q].states) : tree[q].states[i].finite

\* C26: every node, whether its root was constructed from a center and half
\* size or from a StateSet, has no children or exactly 2^D children; children
\* exist only below a node with maxDepth > 0 that took a local state, have
\* half the parent's halfSize and maxDepth - 1, and lie at pairwise distinct
\* centers center +/- halfSize/2 per axis.
C26_NoneOrAllChildren ==
    \A p \in DOMAIN tree :
        \/ ChildNumbers(p) = {}
        \/ /\ ChildNumbers(p) = 0..(2 ^ Cardinality(TreeAxes) - 1)
           /\ tree[p].maxDepth > 0
           /\ HoldsLocalState(p)
           /\ \A n \in ChildNumbers(p) :
                 /\ 2 * tree[Append(p, n)].halfSize = tree[p].halfSize
                 /\ tree[Append(p, n)].maxDepth = tree[p].maxDepth - 1
                 /\ \A c \in TreeAxes :
                       2 * Abs(tree[Append(p, n)].center[c] - tree[p].center[c])
                           = tree[p].halfSize
           /\ \A n \in ChildNumbers(p) : \A m \in ChildNumbers(p) :
                 n # m => tree[Append(p, n)].center # tree[Append(p, m)].center

\* How often x occurs in the sequence seq.
Occurrences(seq, x) == Cardinality({i \in 1..Len(seq) : seq[i] = x})

\* C30: for a StateTreeNode built from the StateSet and matrix elements that
\* vanish whenever the extents of the two states do not intersect,
\* createModel(stateSet, stateTreeNode, o) adds the same hopping amplitudes,
\* each as often, as createModel(stateSet, o), a state's element with itself
\* included.
C30_TreeModelEqualsExhaustive ==
    (model.status = "built" /\ treeModel.status = "built") =>
        /\ Len(treeModel.amplitudes) = Len(model.amplitudes)
        /\ \A i \in 1..Len(model.amplitudes) :
              Occurrences(treeModel.amplitudes, model.amplitudes[i])
                  = Occurrences(model.amplitudes, model.amplitudes[i])

(***************************************************************************)
(* Properties of the StateTreeNode.                                        *)
(***************************************************************************)
Elements(seq) == {seq[i] : i \in 1..Len(seq)}

Root == tree[<<>>]

\* The states stored on the nodes of the tree.
StoredStates == UNION {Elements(tree[p].states) : p \in DOMAIN tree}

\* The sphere of radius extent around coordinates meets the extent sphere of
\* the state (the whole space for a state without finite extent).
SpheresIntersect(s, coordinates, extent) ==
    \/ ~s.finite
    \/ DistanceSquared(coordinates, s.coordinates)
           < (extent + s.extent) * (extent + s.extent)

\* The state fits into the box of that center and half size.
FitsInto(s, center, halfSize) ==
    \A n \in TreeAxes : Abs(s.coordinates[n] - center[n]) + s.extent <= halfSize

\* C17: getOverlappingStates returns exactly the added states, local or not,
\* whose extent sphere intersects the query sphere, each once: the same set
\* as a scan over all added states, wherever the query point lies.
C17_QueryIsExact ==
    (treePc = "queried") =>
        /\ Elements(overlappingStates) =
              {s \in Elements(added) :
                  SpheresIntersect(s, queryCoordinates, queryExtent)}
        /\ Len(overlappingStates) = Cardinality(Elements(overlappingStates))

\* C18: a query of extent 0 at the coordinates of an added state of finite
\* extent returns that state.
C18_OwnCoordinatesFound ==
    (treePc = "queried" /\ queryExtent = 0) =>
        \A s \in Elements(added) :
            (s.finite /\ s.coordinates = queryCoordinates) =>
                s \in Elements(overlappingStates)

\* C19: every state of finite extent stored on a node lies inside the node's
\* box, and the node has maxDepth 0 or none of its child boxes can hold the
\* state; no node lies deeper than the root's maxDepth.
C19_StoredOnDeepestContainingNode ==
    (treePc # "absent") =>
        /\ \A p \in DOMAIN tree :
              /\ Len(p) <= Root.maxDepth
              /\ tree[p].maxDepth = Root.maxDepth - Len(p)
              /\ \A s \in Elements(tree[p].states) :
                    s.finite =>
                       /\ FitsInto(s, tree[p].center, tree[p].halfSize)
                       /\ \/ tree[p].maxDepth = 0
                          \/ /\ HasChildren(tree, p)
                             /\ \A n \in 0..(NumSpacePartitions - 1) :
                                   ~FitsInto(s, tree[Append(p, n)].center,
                                             tree[Append(p, n)].halfSize)
        /\ StoredStates = Elements(added)

\* One state is stored on a grandchild of the root, another, too large for
\* any child, on the root itself.
C19_Witness ==
    /\ treePc = "added"
    /\ Root.maxDepth = 2
    /\ \E p \in DOMAIN tree : Len(p) = 2 /\ tree[p].states # <<>>
    /\ \E s \in Elements(Root.states) : s.finite /\ s.extent = 1

\* C20: add() of a state of finite extent that does not fit into the root box
\* ends in the fatal error, with the state stored nowhere and the tree as it
\* was before the call; every other add() succeeds, and a state without finite
\* extent is stored on the root whatever its coordinates.
C20_RejectedWithTreeUnchanged ==
    /\ [](treePc = "fatal" =>
             /\ addArgument.finite
             /\ ~FitsInto(addArgument, Root.center, Root.halfSize)
             /\ addArgument \notin StoredStates)
    /\ [](treePc = "added" =>
             /\ addArgument \in StoredStates
             /\ addArgument.finite => FitsInto(addArgument, Root.center, Root.halfSize)
             /\ ~addArgument.finite => addArgument \in Elements(Root.states))
    /\ [][treePc' = "fatal" => tree' = tree]_vars

\* add() has failed on a tree that already has children and a stored state.
C20_Witness ==
    /\ treePc = "fatal"
    /\ Len(added) = 1
    /\ HasChildren(tree, <<>>)
    /\ addArgument.coordinates = <<2, 2>>
    /\ addArgument.extent = 1
    /\ Root.halfSize = 2

(***************************************************************************)
(* FLEX::convertSelfEnergyIndexStructure (FLEX.cpp:283-373). A             *)
(* Property::SelfEnergy is its IndexTree, its Matsubara window and its     *)
(* data, a function from (Index, n) to the value stored there; a value is  *)
(* told apart by the place it was first stored at.                         *)
(***************************************************************************)
MaxMeshPoints == 2
MaxOrbitals == 2
MaxMatsubaraEnergies == 2

\* selfEnergy.getNumMatsubaraEnergies(): one energy per two index steps.
NumMatsubaraEnergies(se) ==
    (se.upperMatsubaraEnergyIndex - se.lowerMatsubaraEnergyIndex) \div 2 + 1

\* The mesh points of a MomentumSpaceContext, one coordinate per dimension.
MeshPoints(context) ==
    {k \in [1..Len(context.numMeshPoints) -> 0..(MaxMeshPoints - 1)] :
        \A d \in 1..Len(context.numMeshPoints) : k[d] < context.numMeshPoints[d]}

\* Lines 356-363 with the two orbitals exchanged.
OldIndex_OrbitalsExchanged(kx, ky, orbital0, orbital1) ==
    <<<<kx, ky>>, <<orbital1>>, <<orbital0>>>>

\* Lines 356-363: {{kx, ky}, {orbital0}, {orbital1}}.
OldIndex(kx, ky, orbital0, orbital1) == <<<<kx, ky>>, <<orbital0>>, <<orbital1>>>>

\* Lines 309-312 and 342-353: {{kx, ky, orbital0}, {kx, ky, orbital1}}.
NewIndex(kx, ky, orbital0, orbital1) ==
    <<<<kx, ky, orbital0>>, <<kx, ky, orbital1>>>>

\* The self-energy calculateSelfEnergy left behind: one entry per mesh
\* point and pair of orbitals.
SelfEnergyOf(context, lower, numEnergies, fundamental) ==
    LET indices == {<<k, <<orbital0>>, <<orbital1>>>> :
                        k \in MeshPoints(context),
                        orbital0 \in 0..(context.numOrbitals - 1),
                        orbital1 \in 0..(context.numOrbitals - 1)}
    IN  [indices |-> indices,
         lowerMatsubaraEnergyIndex |-> lower,
         upperMatsubaraEnergyIndex |-> lower + 2 * (numEnergies - 1),
         fundamentalMatsubaraEnergy |-> fundamental,
         data |-> [key \in indices \X (0..(numEnergies - 1)) |-> key]]

\* Lines 324-370: the assignments of the loop nest.
Assignments(context, old) ==
    {[to |-> <<NewIndex(kx, ky, orbital0, orbital1), n>>,
      value |-> old.data[<<OldIndex(kx, ky, orbital0, orbital1), n>>]] :
        kx \in 0..(context.numMeshPoints[1] - 1),
        ky \in 0..(context.numMeshPoints[2] - 1),
        orbital0 \in 0..(context.numOrbitals - 1),
        orbital1 \in 0..(context.numOrbitals - 1),
        n \in 0..(NumMatsubaraEnergies(old) - 1)}

\* Lines 296-370: newSelfEnergy, constructed over memoryLayout with the
\* window of the old self-energy and then filled by the loop nest.
NewSelfEnergy(context, old) ==
    LET memoryLayout ==
            {NewIndex(kx, ky, orbital0, orbital1) :
                kx \in 0..(context.numMeshPoints[1] - 1),
                ky \in 0..(context.numMeshPoints[2] - 1),
                orbital0 \in 0..(context.numOrbitals - 1),
                orbital1 \in 0..(context.numOrbitals - 1)}
    IN  [indices |-> memoryLayout,
         lowerMatsubaraEnergyIndex |-> old.lowerMatsubaraEnergyIndex,
         upperMatsubaraEnergyIndex |-> old.upperMatsubaraEnergyIndex,
         fundamentalMatsubaraEnergy |-> old.fundamentalMatsubaraEnergy,
         data |-> [key \in memoryLayout \X (0..(NumMatsubaraEnergies(old) - 1)) |->
                      (CHOOSE a \in Assignments(context, old) : a.to = key).value]]

\* Lines 283-373: the TBTKAssert on the number of mesh dimensions, then the
\* conversion.
ConvertSelfEnergyIndexStructure ==
    /\ convertPc = "idle"
    /\ IF Len(momentumSpaceContext.numMeshPoints) # 2
       THEN /\ convertPc' = "fatal"
            /\ selfEnergy' = selfEnergy
       ELSE /\ convertPc' = "done"
            /\ selfEnergy' = NewSelfEnergy(momentumSpaceContext, selfEnergy)
    /\ UNCHANGED momentumSpaceContext
    /\ UNCHANGED <<flexVars, ldosVars, extractorVars, spVars, treeVars,
                   modelFactoryVars, susceptibilityVars, diagonalizerVars>>

\* calculateSelfEnergy has returned and the conversion is about to run.
CallConvertSelfEnergyIndexStructure ==
    /\ \E numMeshPoints \in UNION {[1..d -> 1..MaxMeshPoints] : d \in 1..MaxMeshDimensions} :
       \E numOrbitals \in 1..MaxOrbitals :
          /\ momentumSpaceContext =
                [numMeshPoints |-> numMeshPoints, numOrbitals |-> numOrbitals]
          /\ \E lower \in {-3, -1} : \E numEnergies \in 1..MaxMatsubaraEnergies :
             \E fundamental \in {1, 2} :
                selfEnergy = SelfEnergyOf(momentumSpaceContext, lower, numEnergies,
                                          fundamental)
    /\ convertPc = "idle"

InitSelfEnergy ==
    /\ IdleFLEX
    /\ IdleLDOS
    /\ IdleExtractor
    /\ IdleSP_LDOS
    /\ IdleTree
    /\ IdleModelFactory
    /\ IdleSusceptibility
    /\ IdleDiagonalizer
    /\ CallConvertSelfEnergyIndexStructure

NextSelfEnergy == ConvertSelfEnergyIndexStructure

SpecSelfEnergy == InitSelfEnergy /\ [][NextSelfEnergy]_vars

\* C25: convertSelfEnergyIndexStructure is a pure re-indexing: the new
\* self-energy at ({kx, ky, orbital0}, {kx, ky, orbital1}), n is the old one at
\* ({kx, ky}, {orbital0}, {orbital1}), n for every kx, ky, orbital0, orbital1
\* and n in range; it has exactly Nx*Ny*numOrbitals^2 index entries, every one
\* of them filled for the whole window, and the Matsubara window of the old
\* self-energy.
C25_PureReindexing ==
    [][(convertPc = "idle" /\ convertPc' = "done") =>
          LET Nx == momentumSpaceContext.numMeshPoints[1]
              Ny == momentumSpaceContext.numMeshPoints[2]
              numOrbitals == momentumSpaceContext.numOrbitals
          IN  /\ \A kx \in 0..(Nx - 1) : \A ky \in 0..(Ny - 1) :
                 \A orbital0 \in 0..(numOrbitals - 1) :
                 \A orbital1 \in 0..(numOrbitals - 1) :
                 \A n \in 0..(NumMatsubaraEnergies(selfEnergy) - 1) :
                    selfEnergy'.data[<<<<<<kx, ky, orbital0>>, <<kx, ky, orbital1>>>>, n>>]
                        = selfEnergy.data[<<<<<<kx, ky>>, <<orbital0>>, <<orbital1>>>>, n>>]
              /\ Cardinality(selfEnergy'.indices) = Nx * Ny * numOrbitals * numOrbitals
              /\ DOMAIN selfEnergy'.data
                     = selfEnergy'.indices \X (0..(NumMatsubaraEnergies(selfEnergy) - 1))
              /\ Cardinality({selfEnergy'.data[key] : key \in DOMAIN selfEnergy'.data})
                     = Cardinality(DOMAIN selfEnergy.data)
              /\ selfEnergy'.lowerMatsubaraEnergyIndex = selfEnergy.lowerMatsubaraEnergyIndex
              /\ selfEnergy'.upperMatsubaraEnergyIndex = selfEnergy.upperMatsubaraEnergyIndex
              /\ selfEnergy'.fundamentalMatsubaraEnergy
                     = selfEnergy.fundamentalMatsubaraEnergy]_vars

\* A self-energy over a 2x2 mesh with two orbitals and two Matsubara energies
\* has been converted.
C25_Witness ==
    /\ convertPc = "done"
    /\ momentumSpaceContext.numMeshPoints = <<2, 2>>
    /\ momentumSpaceContext.numOrbitals = 2
    /\ NumMatsubaraEnergies(selfEnergy) = 2
    /\ <<<<<<1, 0, 0>>, <<1, 0, 1>>>>, 1>> \in DOMAIN selfEnergy.data

(***************************************************************************)
(* SusceptibilityCalculator (part_004). The setters and                    *)
(* getSusceptibilityResultIndex are the inline functions of the header;    *)
(* the calculate...Susceptibility functions look the result up in their    *)
(* cache tree and, on a miss, compute and cache it. A result is told apart *)
(* by the settings and arguments it was computed from.                     *)
(***************************************************************************)
MaxCalls == 4

\* The Index momentumSpaceContext->getKIndex(k) of the momenta asked for.
KIndices == {<<0, 1>>}

\* The orbitalIndices asked for.
OrbitalIndices == {<<0, 0, 0, 0>>, <<0, 0, 0, 1>>}

\* The values given to U, Up, J and Jp.
InteractionValues == {0, 1}

\* The energy lists given to setSusceptibilityEnergies.
EnergyLists == {<<0>>, <<0, 1>>}

\* Lines 377-390 with orbitalIndices.at(2) in the place of orbitalIndices.at(3).
GetSusceptibilityResultIndex_LastRepeated(kIndex, orbitalIndices) ==
    kIndex \o <<orbitalIndices[1], orbitalIndices[2], orbitalIndices[3],
                orbitalIndices[3]>>

\* Lines 377-390: Index(kIndex, {orbitalIndices.at(0), ..., orbitalIndices.at(3)}),
\* the components of kIndex followed by the four orbital indices.
GetSusceptibilityResultIndex(kIndex, orbitalIndices) ==
    kIndex \o <<orbitalIndices[1], orbitalIndices[2], orbitalIndices[3],
                orbitalIndices[4]>>

\* What the Lindhard or Matsubara kernel computes for (k, orbitalIndices)
\* under the current settings.
Kernel(kIndex, orbitalIndices) ==
    [kind |-> "bare", mode |-> susceptibilityMode, energyType |-> energyType,
     energies |-> susceptibilityEnergies, k |-> kIndex,
     orbitalIndices |-> orbitalIndices]

\* The outcome of calculateSusceptibility(k, orbitalIndices): the cached
\* entry if there is one, else the kernel's result, which is cached.
BareSusceptibility(kIndex, orbitalIndices) ==
    LET resultIndex == GetSusceptibilityResultIndex(kIndex, orbitalIndices)
    IN  IF resultIndex \in DOMAIN susceptibilityTree
        THEN [result |-> susceptibilityTree[resultIndex], kernel |-> 0,
              tree |-> susceptibilityTree]
        ELSE [result |-> Kernel(kIndex, orbitalIndices), kernel |-> 1,
              tree |-> [i \in DOMAIN susceptibilityTree \cup {resultIndex} |->
                           IF i = resultIndex
                           THEN Kernel(kIndex, orbitalIndices)
                           ELSE susceptibilityTree[i]]]

\* One more call; what it was and what it returned.
Call(op, kIndex, orbitalIndices, result) ==
    [op |-> op, serial |-> lastCall.serial + 1, k |-> kIndex,
     orbitalIndices |-> orbitalIndices, result |-> result]

\* One more call, of a setter.
SetterCall(op) ==
    [op |-> op, serial |-> lastCall.serial + 1, k |-> <<>>,
     orbitalIndices |-> <<>>, result |-> [kind |-> "none"]]

\* calculateSusceptibility(k, orbitalIndices).
CalculateSusceptibility ==
    /\ lastCall.serial < MaxCalls
    /\ \E kIndex \in KIndices : \E orbitalIndices \in OrbitalIndices :
          LET r == BareSusceptibility(kIndex, orbitalIndices)
          IN  /\ susceptibilityTree' = r.tree
              /\ kernelCalls' = kernelCalls + r.kernel
              /\ lastCall' = Call("calculateSusceptibility", kIndex,
                                  orbitalIndices, r.result)
    /\ UNCHANGED <<rpaSusceptibilityTree, rpaChargeSusceptibilityTree,
                   rpaSpinSusceptibilityTree, susceptibilityMode, energyType,
                   susceptibilityEnergies, interactionParameters,
                   interactionAmplitudesAreGenerated, interactionAmplitudesCharge>>
    /\ UNCHANGED <<flexVars, ldosVars, extractorVars, spVars, treeVars,
                   modelFactoryVars, diagonalizerVars, selfEnergyVars>>

\* The cache tree of one of the three RPA susceptibilities.
RPATree(kind) ==
    CASE kind = "rpa" -> rpaSusceptibilityTree
      [] kind = "charge" -> rpaChargeSusceptibilityTree
      [] kind = "spin" -> rpaSpinSusceptibilityTree

\* calculateRPASusceptibility, calculateChargeRPASusceptibility and
\* calculateSpinRPASusceptibility: the cached entry if there is one; else
\* the interaction amplitudes are generated from U, Up, J and Jp unless they
\* are generated already, the bare susceptibility is dressed with them and
\* the result is cached.
CalculateRPASusceptibility ==
    /\ lastCall.serial < MaxCalls
    /\ \E kind \in {"rpa", "charge", "spin"} :
       \E kIndex \in KIndices : \E orbitalIndices \in OrbitalIndices :
          LET resultIndex == GetSusceptibilityResultIndex(kIndex, orbitalIndices)
              amplitudes == IF interactionAmplitudesAreGenerated
                            THEN interactionAmplitudesCharge
                            ELSE interactionParameters
              bare == BareSusceptibility(kIndex, orbitalIndices)
              computed == [kind |-> kind, amplitudes |-> amplitudes,
                           energies |-> susceptibilityEnergies,
                           bare |-> bare.result]
              hit == resultIndex \in DOMAIN RPATree(kind)
              filled == [i \in DOMAIN RPATree(kind) \cup {resultIndex} |->
                            IF i = resultIndex THEN computed ELSE RPATree(kind)[i]]
          IN  IF hit
              THEN /\ lastCall' = Call(kind, kIndex, orbitalIndices,
                                       RPATree(kind)[resultIndex])
                   /\ UNCHANGED <<susceptibilityTree, rpaSusceptibilityTree,
                                  rpaChargeSusceptibilityTree,
                                  rpaSpinSusceptibilityTree,
                                  interactionAmplitudesAreGenerated,
                                  interactionAmplitudesCharge, kernelCalls>>
              ELSE /\ lastCall' = Call(kind, kIndex, orbitalIndices, computed)
                   /\ interactionAmplitudesAreGenerated' = TRUE
                   /\ interactionAmplitudesCharge' = amplitudes
                   /\ susceptibilityTree' = bare.tree
                   /\ kernelCalls' = kernelCalls + bare.kernel
                   /\ rpaSusceptibilityTree' =
                         IF kind = "rpa" THEN filled ELSE rpaSusceptibilityTree
                   /\ rpaChargeSusceptibilityTree' =
                         IF kind = "charge" THEN filled ELSE rpaChargeSusceptibilityTree
                   /\ rpaSpinSusceptibilityTree' =
                         IF kind = "spin" THEN filled ELSE rpaSpinSusceptibilityTree
    /\ UNCHANGED <<susceptibilityMode, energyType, susceptibilityEnergies,
                   interactionParameters>>
    /\ UNCHANGED <<flexVars, ldosVars, extractorVars, spVars, treeVars,
                   modelFactoryVars, diagonalizerVars, selfEnergyVars>>

\* Lines 392-396: setSusceptibilityMode(mode).
SetSusceptibilityMode ==
    /\ lastCall.serial < MaxCalls
    /\ \E mode \in {"Lindhard", "Matsubara"} : susceptibilityMode' = mode
    /\ lastCall' = SetterCall("setSusceptibilityMode")
    /\ UNCHANGED <<susceptibilityTree, rpaSusceptibilityTree,
                   rpaChargeSusceptibilityTree, rpaSpinSusceptibilityTree,
                   energyType, susceptibilityEnergies, interactionParameters,
                   interactionAmplitudesAreGenerated, interactionAmplitudesCharge,
                   kernelCalls>>
    /\ UNCHANGED <<flexVars, ldosVars, extractorVars, spVars, treeVars,
                   modelFactoryVars, diagonalizerVars, selfEnergyVars>>

\* Lines 403-407: setEnergyType(energyType).
SetEnergyType ==
    /\ lastCall.serial < MaxCalls
    /\ \E type \in {"Real", "Imaginary", "Complex"} : energyType' = type
    /\ lastCall' = SetterCall("setEnergyType")
    /\ UNCHANGED <<susceptibilityTree, rpaSusceptibilityTree,
                   rpaChargeSusceptibilityTree, rpaSpinSusceptibilityTree,
                   susceptibilityMode, susceptibilityEnergies,
                   interactionParameters, interactionAmplitudesAreGenerated,
                   interactionAmplitudesCharge, kernelCalls>>
    /\ UNCHANGED <<flexVars, ldosVars, extractorVars, spVars, treeVars,
                   modelFactoryVars, diagonalizerVars, selfEnergyVars>>

\* Lines 414-422: setSusceptibilityEnergies(susceptibilityEnergies).
SetSusceptibilityEnergies ==
    /\ lastCall.serial < MaxCalls
    /\ \E energies \in EnergyLists : susceptibilityEnergies' = energies
    /\ susceptibilityTree' = <<>>
    /\ rpaSusceptibilityTree' = <<>>
    /\ rpaChargeSusceptibilityTree' = <<>>
    /\ rpaSpinSusceptibilityTree' = <<>>
    /\ lastCall' = SetterCall("setSusceptibilityEnergies")
    /\ UNCHANGED <<susceptibilityMode, energyType, interactionParameters,
                   interactionAmplitudesAreGenerated, interactionAmplitudesCharge,
                   kernelCalls>>
    /\ UNCHANGED <<flexVars, ldosVars, extractorVars, spVars, treeVars,
                   modelFactoryVars, diagonalizerVars, selfEnergyVars>>

\* Lines 518-548 with the flag interactionAmplitudesAreGenerated left as it is.
InteractionSetter_FlagKept(generated) == generated

\* Lines 523, 531, 539 and 547: interactionAmplitudesAreGenerated = false.
InteractionSetter(generated) == FALSE

\* What setU, setUp, setJ and setJp share (lines 520-523, 528-531, 536-539,
\* 544-547): the three RPA trees are cleared and the amplitudes are marked
\* as not generated.
ClearRPA(op) ==
    /\ lastCall.serial < MaxCalls
    /\ rpaSusceptibilityTree' = <<>>
    /\ rpaChargeSusceptibilityTree' = <<>>
    /\ rpaSpinSusceptibilityTree' = <<>>
    /\ interactionAmplitudesAreGenerated' =
          InteractionSetter(interactionAmplitudesAreGenerated)
    /\ lastCall' = SetterCall(op)
    /\ UNCHANGED <<susceptibilityTree, susceptibilityMode, energyType,
                   susceptibilityEnergies, interactionAmplitudesCharge, kernelCalls>>
    /\ UNCHANGED <<flexVars, ldosVars, extractorVars, spVars, treeVars,
                   modelFactoryVars, diagonalizerVars, selfEnergyVars>>

\* Lines 518-524: setU(U).
SetU ==
    /\ \E value \in InteractionValues :
          interactionParameters' = [interactionParameters EXCEPT !.U = value]
    /\ ClearRPA("setU")

\* Lines 526-532: setUp(Up).
SetUp ==
    /\ \E value \in InteractionValues :
          interactionParameters' = [interactionParameters EXCEPT !.Up = value]
    /\ ClearRPA("setUp")

\* Lines 534-540: setJ(J).
SetJ ==
    /\ \E value \in InteractionValues :
          interactionParameters' = [interactionParameters EXCEPT !.J = value]
    /\ ClearRPA("setJ")

\* Lines 542-548: setJp(Jp).
SetJp ==
    /\ \E value \in InteractionValues :
          interactionParameters' = [interactionParameters EXCEPT !.Jp = value]
    /\ ClearRPA("setJp")

\* A calculator right after its construction.
InitSusceptibility ==
    /\ IdleFLEX
    /\ IdleLDOS
    /\ IdleExtractor
    /\ IdleSP_LDOS
    /\ IdleTree
    /\ IdleModelFactory
    /\ IdleSusceptibility
    /\ IdleDiagonalizer
    /\ IdleSelfEnergy

NextSusceptibility ==
    \/ CalculateSusceptibility
    \/ CalculateRPASusceptibility
    \/ SetSusceptibilityMode
    \/ SetEnergyType
    \/ SetSusceptibilityEnergies
    \/ SetU
    \/ SetUp
    \/ SetJ
    \/ SetJp

SpecSusceptibility == InitSusceptibility /\ [][NextSusceptibility]_vars

(***************************************************************************)
(* Properties of the SusceptibilityCalculator.                             *)
(***************************************************************************)
\* C22: setU, setUp, setJ and setJp empty the three RPA cache trees and mark
\* the interaction amplitudes as not generated, leaving the bare cache and
\* the energy list as they were; setSusceptibilityEnergies empties all four
\* trees; so an RPA result returned was computed with the current U, Up, J
\* and Jp and for the current energy list.
C22_InvalidatedBySetters ==
    [][/\ lastCall'.op \in {"setU", "setUp", "setJ", "setJp"} =>
             /\ rpaSusceptibilityTree' = <<>>
             /\ rpaChargeSusceptibilityTree' = <<>>
             /\ rpaSpinSusceptibilityTree' = <<>>
             /\ interactionAmplitudesAreGenerated' = FALSE
             /\ susceptibilityTree' = susceptibilityTree
             /\ susceptibilityEnergies' = susceptibilityEnergies
       /\ lastCall'.op = "setSusceptibilityEnergies" =>
             /\ susceptibilityTree' = <<>>
             /\ rpaSusceptibilityTree' = <<>>
             /\ rpaChargeSusceptibilityTree' = <<>>
             /\ rpaSpinSusceptibilityTree' = <<>>
       /\ lastCall'.op \in {"rpa", "charge", "spin"} =>
             /\ lastCall'.result.amplitudes = interactionParameters'
             /\ lastCall'.result.energies = susceptibilityEnergies'
             /\ lastCall'.result.bare.energies = susceptibilityEnergies']_vars

\* setU has changed U, at least two calls came before, and a charge RPA
\* susceptibility computed from a cached bare susceptibility is returned.
C22_Witness ==
    /\ lastCall.op = "charge"
    /\ lastCall.serial >= 3
    /\ interactionParameters.U = 1
    /\ lastCall.result.amplitudes.U = 1
    /\ susceptibilityTree # <<>>

\* C23: a calculateSusceptibility call that follows one with the same
\* (k, orbitalIndices), no parameter being changed in between, returns the
\* same result without calling the Lindhard or Matsubara kernel again; the
\* entry returned for (k, orbitalIndices) is one computed for that momentum
\* and those orbital indices, so distinct pairs share no entry.
C23_SecondCallServedFromCache ==
    [][(lastCall'.op = "calculateSusceptibility" /\ lastCall'.serial # lastCall.serial) =>
          /\ (/\ lastCall.op = "calculateSusceptibility"
              /\ lastCall.k = lastCall'.k
              /\ lastCall.orbitalIndices = lastCall'.orbitalIndices)
                 => (lastCall'.result = lastCall.result /\ kernelCalls' = kernelCalls)
          /\ lastCall'.result.k = lastCall'.k
          /\ lastCall'.result.orbitalIndices = lastCall'.orbitalIndices
          /\ \A key \in DOMAIN susceptibilityTree' :
                key = susceptibilityTree'[key].k \o susceptibilityTree'[key].orbitalIndices]_vars

\* The same pair was asked for twice in a row, after another pair had been
\* cached, and the kernel ran twice in all.
C23_Witness ==
    /\ lastCall.op = "calculateSusceptibility"
    /\ lastCall.serial = 3
    /\ kernelCalls = 2
    /\ Cardinality(DOMAIN susceptibilityTree) = 2

\* C29: whatever setters and calculateSusceptibility calls came before, the
\* value calculateSusceptibility returns for (k, orbitalIndices) is the one
\* the kernel of the current mode computes under the current settings.
C29_NeverStale ==
    lastCall.op = "calculateSusceptibility" =>
        lastCall.result = Kernel(lastCall.k, lastCall.orbitalIndices)

(***************************************************************************)
(* Solver::Diagonalizer::run with the self-consistency callback of its     *)
(* test (part_003:16-48). The callback and the steps of the test are       *)
(* translated from the test; run() itself is the loop the test expects:    *)
(* one callback call per iteration, until the callback returns true or     *)
(* maxIterations iterations are done.                                      *)
(***************************************************************************)
MaxSolverRuns == 2
MaxSolverIterations == 12

\* Diagonalizer::maxIterations of a new Diagonalizer.
DefaultMaxIterations == 50

\* Lines 17-23 with the callback reporting self-consistency one call early.
SelfConsistencyCallback_OneCallEarly(counter) ==
    [counter |-> counter + 1, return |-> counter + 1 = 9]

\* Lines 17-23: selfConsistencyCounter++; return selfConsistencyCounter == 10.
SelfConsistencyCallback(counter) ==
    [counter |-> counter + 1, return |-> counter + 1 = 10]

\* Lines 31-35: Diagonalizer solver; the counter of the test is 0.
ConstructDiagonalizer ==
    /\ selfConsistencyCounter = 0
    /\ solverMaxIterations = DefaultMaxIterations
    /\ iterationCounter = 0
    /\ counterAtRun = 0
    /\ solverRuns = 0
    /\ solverPc = "constructed"

\* Lines 34 and 39: selfConsistencyCounter = 0.
ResetSelfConsistencyCounter ==
    /\ solverPc \in {"constructed", "returned"}
    /\ selfConsistencyCounter # 0
    /\ selfConsistencyCounter' = 0
    /\ UNCHANGED <<solverMaxIterations, iterationCounter, counterAtRun,
                   solverRuns, solverPc>>
    /\ UNCHANGED <<flexVars, ldosVars, extractorVars, spVars, treeVars,
                   modelFactoryVars, susceptibilityVars, selfEnergyVars>>

\* Line 41: solver.setMaxIterations(maxIterations).
SetSolverMaxIterations ==
    /\ solverPc \in {"constructed", "returned"}
    /\ \E cap \in 1..MaxSolverIterations : solverMaxIterations' = cap
    /\ UNCHANGED <<selfConsistencyCounter, iterationCounter, counterAtRun,
                   solverRuns, solverPc>>
    /\ UNCHANGED <<flexVars, ldosVars, extractorVars, spVars, treeVars,
                   modelFactoryVars, susceptibilityVars, selfEnergyVars>>

\* Lines 36 and 42: solver.run() is called.
RunDiagonalizer ==
    /\ solverPc \in {"constructed", "returned"}
    /\ solverRuns < MaxSolverRuns
    /\ solverRuns' = solverRuns + 1
    /\ iterationCounter' = 0
    /\ counterAtRun' = selfConsistencyCounter
    /\ solverPc' = "running"
    /\ UNCHANGED <<selfConsistencyCounter, solverMaxIterations>>
    /\ UNCHANGED <<flexVars, ldosVars, extractorVars, spVars, treeVars,
                   modelFactoryVars, susceptibilityVars, selfEnergyVars>>

\* One iteration of run(): the callback is called once, and run() returns if
\* it returned true.
IterateDiagonalizer ==
    /\ solverPc = "running"
    /\ iterationCounter < solverMaxIterations
    /\ iterationCounter' = iterationCounter + 1
    /\ selfConsistencyCounter' = SelfConsistencyCallback(selfConsistencyCounter).counter
    /\ solverPc' = IF SelfConsistencyCallback(selfConsistencyCounter).return
                   THEN "returned" ELSE "running"
    /\ UNCHANGED <<solverMaxIterations, counterAtRun, solverRuns>>
    /\ UNCHANGED <<flexVars, ldosVars, extractorVars, spVars, treeVars,
                   modelFactoryVars, susceptibilityVars, selfEnergyVars>>

\* run() returns after maxIterations iterations.
ReturnDiagonalizer ==
    /\ solverPc = "running"
    /\ iterationCounter >= solverMaxIterations
    /\ solverPc' = "returned"
    /\ UNCHANGED <<selfConsistencyCounter, solverMaxIterations, iterationCounter,
                   counterAtRun, solverRuns>>
    /\ UNCHANGED <<flexVars, ldosVars, extractorVars, spVars, treeVars,
                   modelFactoryVars, susceptibilityVars, selfEnergyVars>>

InitDiagonalizer ==
    /\ IdleFLEX
    /\ IdleLDOS
    /\ IdleExtractor
    /\ IdleSP_LDOS
    /\ IdleTree
    /\ IdleModelFactory
    /\ IdleSusceptibility
    /\ ConstructDiagonalizer
    /\ IdleSelfEnergy

NextDiagonalizer ==
    \/ ResetSelfConsistencyCounter
    \/ SetSolverMaxIterations
    \/ RunDiagonalizer
    \/ IterateDiagonalizer
    \/ ReturnDiagonalizer

SpecDiagonalizer == InitDiagonalizer /\ [][NextDiagonalizer]_vars

====
